---- MODULE Spec2Model ----
(***************************************************************************)
(* cachemachine: the manager of cachemachines (cachemachinemanager.py),    *)
(* the per-target control loop (cachemachine.py) and the cluster it talks  *)
(* to, as the repository's tests stand it up (tests/kubernetes_mock.py).   *)
(*                                                                         *)
(* An image reference is a sequence of tokens: <<repository, ":", tag>>    *)
(* or <<repository, "@", digest>>; splitting and formatting work on the    *)
(* separator token, as str.split and the f-strings of the code do.         *)
(***************************************************************************)
EXTENDS Integers, Naturals, Sequences, FiniteSets, TLC

VARIABLES
    nodes,       \* KubernetesMock.nodes: the cluster's nodes and their image caches
    daemonsets,  \* KubernetesMock.daemonsets: name -> pull job
    machines,    \* CacheMachineManager._machines: name -> machine (index into loops)
    jobs,        \* CacheMachineManager._jobs: name -> scheduler job (index into loops)
    loops,       \* the do_work coroutines the scheduler has spawned, each with
                 \* the fields of its CacheMachine
    logged,      \* the exception logger.exception() logged last, or None
    called,      \* the call made last to a function of the tag classes or of the
                 \* Rubin strategy, with its arguments
    outcome,     \* what that call, or the last POST to the manager, returned or
                 \* raised
    closed       \* the scheduler of the manager has been closed

vars == <<nodes, daemonsets, machines, jobs, loops, logged, called, outcome, closed>>

\* ------------------------------------------------------------------------
\* Bounds
\* ------------------------------------------------------------------------
MaxLoops == 2

\* ------------------------------------------------------------------------
\* Values
\* ------------------------------------------------------------------------
None == "None"

\* no call made yet
NoCall == [op |-> "none"]

\* what a call returns, or the exception it raises
Return(value) == [exc |-> None, value |-> value]

Raise(exc) == [exc |-> exc, value |-> None]

EmptyMap == [x \in {} |-> None]

Put(f, k, v) == [x \in DOMAIN f \cup {k} |-> IF x = k THEN v ELSE f[x]]

Del(f, k) == [x \in DOMAIN f \ {k} |-> f[x]]

\* f"{repository}:{t}" and f"{repository}@{image_hash}"
TagUrl(repository, t) == <<repository, ":", t>>

HashUrl(repository, h) == <<repository, "@", h>>

NoneAtNone == <<"<none>", "@", "<none>">>

NoneColonNone == <<"<none>", ":", "<none>">>

Hashes == {"sha256:x", "sha256:y"}

\* tests/conftest.py mock_registry: tag -> digest
mock_registry == ("t1" :> "sha256:x") @@ ("t2" :> "sha256:y")

REPO == "repo"

\* ------------------------------------------------------------------------
\* types.py
\* ------------------------------------------------------------------------
\* KubernetesLabels.matches: self.items() <= node_labels.items()
matches(self, node_labels) ==
    \A k \in DOMAIN self : k \in DOMAIN node_labels /\ node_labels[k] = self[k]

CachedDockerImage(image_url, image_hash, tags) ==
    [image_url |-> image_url, image_hash |-> image_hash, tags |-> tags]

DockerImage(image_url, image_hash, name) ==
    [image_url |-> image_url, image_hash |-> image_hash, name |-> name]

\* ------------------------------------------------------------------------
\* Sequence helpers
\* ------------------------------------------------------------------------
InSeq(x, s) == \E i \in 1..Len(s) : s[i] = x

\* list.remove(x): drops the first occurrence
RECURSIVE RemoveFirst(_, _)
RemoveFirst(s, x) ==
    IF s = <<>> THEN <<>>
    ELSE IF Head(s) = x THEN Tail(s)
    ELSE <<Head(s)>> \o RemoveFirst(Tail(s), x)

\* for t in more: if t not in tags: tags.append(t)
RECURSIVE AppendNew(_, _)
AppendNew(tags, more) ==
    IF more = <<>> THEN tags
    ELSE AppendNew(IF InSeq(Head(more), tags) THEN tags
                   ELSE Append(tags, Head(more)), Tail(more))

RECURSIVE Flatten(_)
Flatten(ss) == IF ss = <<>> THEN <<>> ELSE Head(ss) \o Flatten(Tail(ss))

Repeat(x, n) == [i \in 1..n |-> x]

\* ------------------------------------------------------------------------
\* cachemachine.py: CacheMachine.inspect_node_caches
\* ------------------------------------------------------------------------
\* "@sha256:" in url
IsHashName(url) == Len(url) = 3 /\ url[2] = "@" /\ url[3] \in Hashes

\* ImageEntry(): image_hash None, no tags
ImageEntry(repository) == [repository |-> repository, image_hash |-> None, tags |-> <<>>]

\* entries[repository] of the defaultdict: the entry, made on first access
EntryOf(entries, repository) ==
    IF \E i \in 1..Len(entries) : entries[i].repository = repository
    THEN entries
    ELSE Append(entries, ImageEntry(repository))

\* lines 117-126: one name of a group, collated into entries by repository
AddName(entries, url) ==
    IF url = NoneAtNone \/ url = NoneColonNone THEN entries
    ELSE LET es == EntryOf(entries, url[1])
         IN  IF IsHashName(url)
             THEN [i \in 1..Len(es) |->
                     IF es[i].repository = url[1]
                     THEN [es[i] EXCEPT !.image_hash = url[3]]
                     ELSE es[i]]
             ELSE [i \in 1..Len(es) |->
                     IF es[i].repository = url[1] /\ ~InSeq(url[3], es[i].tags)
                     THEN [es[i] EXCEPT !.tags = Append(@, url[3])]
                     ELSE es[i]]

RECURSIVE BuildEntries(_, _)
BuildEntries(entries, names) ==
    IF names = <<>> THEN entries
    ELSE BuildEntries(AddName(entries, Head(names)), Tail(names))

\* lines 130-146: the images of one entry; an entry that has tags and no
\* hash raises KubernetesImageHashNotFound
EntryRaises(ie) == ie.tags # <<>> /\ ie.image_hash = None

EntryImages(ie) ==
    [k \in 1..Len(ie.tags) |->
        CachedDockerImage(TagUrl(ie.repository, ie.tags[k]), ie.image_hash,
                          RemoveFirst(ie.tags, ie.tags[k]))]

\* lines 97-146 for one item of n.status.images
GroupImages(names) ==
    LET entries == BuildEntries(<<>>, names)
    IN  [raised |-> \E i \in 1..Len(entries) : EntryRaises(entries[i]),
         images |-> Flatten([i \in 1..Len(entries) |-> EntryImages(entries[i])])]

\* lines 96-146: node_images of one node
NodeImages(n) ==
    LET gs == [g \in 1..Len(n.images) |-> GroupImages(n.images[g])]
    IN  [raised |-> \E g \in 1..Len(gs) : gs[g].raised,
         images |-> Flatten([g \in 1..Len(gs) |-> gs[g].images])]

\* the comparison without the hash
SameImage_url_only(a, b) == a.image_url = b.image_url

\* lines 161-166
SameImage(a, b) == a.image_hash = b.image_hash /\ a.image_url = b.image_url

\* the tags of a common image kept as the first node gave them
UnionTags_first_node(tags, ms) == tags

\* lines 159-174 for one common_image: it is appended once per node_image
\* that matches, and its tags (one object) take the union of their tags
RECURSIVE UnionTags(_, _)
UnionTags(tags, ms) ==
    IF ms = <<>> THEN tags
    ELSE UnionTags(AppendNew(tags, Head(ms).tags), Tail(ms))

IntersectOne(common_image, node_images) ==
    LET ms == SelectSeq(node_images, LAMBDA ni : SameImage(common_image, ni))
    IN  Repeat([common_image EXCEPT !.tags = UnionTags(@, ms)], Len(ms))

\* lines 150-176: one qualifying node folded into the running common cache
FoldNode(first_node, common_cache, node_images) ==
    IF first_node THEN node_images
    ELSE Flatten([c \in 1..Len(common_cache) |->
                    IntersectOne(common_cache[c], node_images)])

\* lines 85-176: st is [first_node, common_cache, raised], the locals after
\* the nodes before ns; s is their value
RECURSIVE InspectFrom(_, _, _)
InspectFrom(st, ns, labels) ==
    CHOOSE out \in
        { IF ns = <<>> \/ s.raised THEN s
          ELSE IF matches(labels, Head(ns).labels)
               THEN LET ni == NodeImages(Head(ns))
                    IN  IF ni.raised
                        THEN [s EXCEPT !.raised = TRUE]
                        ELSE InspectFrom(
                               [first_node |-> FALSE,
                                common_cache |-> FoldNode(s.first_node, s.common_cache, ni.images),
                                raised |-> FALSE],
                               Tail(ns), labels)
               ELSE InspectFrom(s, Tail(ns), labels)
          : s \in {st} } : TRUE

\* the common cache inspect_node_caches computes from list_nodes(), or the
\* exception it raises
inspect_node_caches(ns, labels) ==
    InspectFrom([first_node |-> TRUE, common_cache |-> <<>>, raised |-> FALSE], ns, labels)

\* ------------------------------------------------------------------------
\* tests/kubernetes_mock.py: the cluster. cl is [nodes, daemonsets]; a call
\* returns [cl, ret, exc], exc being the exception it raises, or None
\* ------------------------------------------------------------------------
V1Node(name, labels, unschedulable, taints, images) ==
    [name |-> name, labels |-> labels, unschedulable |-> unschedulable,
     taints |-> taints, images |-> images]

Result(cl, ret, exc) == [cl |-> cl, ret |-> ret, exc |-> exc]

\* image_hash in url
HashIn(image_hash, url) == \E k \in 1..Len(url) : url[k] = image_hash

\* lines 144-157 for one node the daemonset runs on
PullImage(images, image_url, hash_url, image_hash) ==
    LET holds(names) == \E u \in 1..Len(names) : HashIn(image_hash, names[u])
        already_pulled == \E i \in 1..Len(images) : holds(images[i])
        extended == [i \in 1..Len(images) |->
                       IF holds(images[i]) /\ ~InSeq(image_url, images[i])
                       THEN images[i] \o <<image_url, hash_url>>
                       ELSE images[i]]
    IN  IF already_pulled THEN extended
        ELSE Append(images, <<image_url, hash_url>>)

\* lines 137-157: the nodes after the daemonset has pulled
PullToNodes(ns, ds) ==
    [i \in 1..Len(ns) |->
        IF ns[i].unschedulable \/ ns[i].taints # <<>> THEN ns[i]
        ELSE IF matches(ds.labels, ns[i].labels)
             THEN [ns[i] EXCEPT !.images =
                     PullImage(@, ds.image_url,
                               HashUrl(ds.repository, ds.image_hash), ds.image_hash)]
             ELSE ns[i]]

\* KubernetesMock.daemonset_create; fault: the cluster API fails the call
daemonset_create(cl, name, image_url, labels, fault) ==
    IF fault = "create" THEN Result(cl, None, "ApiException")
    ELSE IF name \in DOMAIN cl.daemonsets
    THEN Result(cl, None, "DaemonsetAlreadyExists")
    ELSE IF image_url[3] \notin DOMAIN mock_registry
    THEN Result(cl, None, "TagNotInRegistry")
    ELSE Result([cl EXCEPT !.daemonsets = Put(@, name,
                   [finished |-> FALSE,
                    tag |-> image_url[3],
                    repository |-> image_url[1],
                    image_hash |-> mock_registry[image_url[3]],
                    image_url |-> image_url,
                    labels |-> labels])],
                None, None)

\* KubernetesMock.daemonset_delete
daemonset_delete(cl, name, fault) ==
    IF fault = "delete" THEN Result(cl, None, "ApiException")
    ELSE IF name \notin DOMAIN cl.daemonsets THEN Result(cl, None, "KeyError")
    ELSE Result([cl EXCEPT !.daemonsets = Del(@, name)], None, None)

\* KubernetesMock.daemonset_finished: the first check sets the flag, the
\* second puts the image on the nodes and reports finished. With "pulling"
\* the check answers as KubernetesClient.daemonset_finished does while the
\* number of nodes that hold the image is not yet the number scheduled:
\* False, however often it is asked
daemonset_finished(cl, name, fault) ==
    IF fault = "status" THEN Result(cl, None, "ApiException")
    ELSE IF name \notin DOMAIN cl.daemonsets
    THEN Result(cl, None, "KubernetesDaemonsetNotFound")
    ELSE IF fault = "pulling" THEN Result(cl, FALSE, None)
    ELSE IF ~cl.daemonsets[name].finished
    THEN Result([cl EXCEPT !.daemonsets[name].finished = TRUE], FALSE, None)
    ELSE Result([cl EXCEPT !.nodes = PullToNodes(@, cl.daemonsets[name])], TRUE, None)

\* ------------------------------------------------------------------------
\* cachemachine.py: CacheMachine
\* ------------------------------------------------------------------------
\* start_caching that names every pull job alike
start_caching_one_name(cl, name, labels, image_url, fault) ==
    daemonset_create(cl, "cachemachine", image_url, labels, fault)

\* CacheMachine.start_caching
start_caching(cl, name, labels, image_url, fault) ==
    daemonset_create(cl, name, image_url, labels, fault)

\* caching that gives up a job that is still pulling
caching_deletes_unfinished(cl, name, fault) ==
    LET f == daemonset_finished(cl, name, fault)
    IN  IF f.exc = "KubernetesDaemonsetNotFound" THEN Result(f.cl, FALSE, None)
        ELSE IF f.exc # None THEN f
        ELSE LET d == daemonset_delete(f.cl, name, fault)
             IN  IF d.exc # None THEN d ELSE Result(d.cl, FALSE, None)

\* caching that reports a job that is still pulling as not caching
caching_unfinished_is_idle(cl, name, fault) ==
    LET f == daemonset_finished(cl, name, fault)
    IN  IF f.exc = "KubernetesDaemonsetNotFound" THEN Result(f.cl, FALSE, None)
        ELSE IF f.exc # None THEN f
        ELSE IF f.ret
        THEN LET d == daemonset_delete(f.cl, name, fault)
             IN  IF d.exc # None THEN d ELSE Result(d.cl, FALSE, None)
        ELSE Result(f.cl, FALSE, None)

\* caching that deletes a finished job and still reports caching, so that
\* the tick ends without a job
caching_finished_ends_tick(cl, name, fault) ==
    LET f == daemonset_finished(cl, name, fault)
    IN  IF f.exc = "KubernetesDaemonsetNotFound" THEN Result(f.cl, FALSE, None)
        ELSE IF f.exc # None THEN f
        ELSE IF f.ret
        THEN LET d == daemonset_delete(f.cl, name, fault)
             IN  IF d.exc # None THEN d ELSE Result(d.cl, TRUE, None)
        ELSE Result(f.cl, TRUE, None)

\* caching without the except clause: KubernetesDaemonsetNotFound goes up
caching_not_found_raises(cl, name, fault) ==
    LET f == daemonset_finished(cl, name, fault)
    IN  IF f.exc # None THEN f
        ELSE IF f.ret
        THEN LET d == daemonset_delete(f.cl, name, fault)
             IN  IF d.exc # None THEN d ELSE Result(d.cl, FALSE, None)
        ELSE Result(f.cl, TRUE, None)

\* CacheMachine.caching
caching(cl, name, fault) ==
    LET f == daemonset_finished(cl, name, fault)
    IN  IF f.exc = "KubernetesDaemonsetNotFound" THEN Result(f.cl, FALSE, None)
        ELSE IF f.exc # None THEN f
        ELSE IF f.ret
        THEN LET d == daemonset_delete(f.cl, name, fault)
             IN  IF d.exc # None THEN d ELSE Result(d.cl, FALSE, None)
        ELSE Result(f.cl, TRUE, None)

\* CacheMachine.__init__, and the coroutine do_work() of it: pc "wait" is
\* the loop at _wait() (or spawned and not yet run), "await" the loop
\* suspended in the desired_images call of repomen[ri]
CacheMachine(name, labels, repomen) ==
    [name |-> name, labels |-> labels, repomen |-> repomen,
     available_images |-> <<>>, common_cache |-> <<>>,
     desired_images |-> <<>>, images_to_cache |-> <<>>,
     loc_available |-> <<>>, loc_desired |-> <<>>, loc_to_cache |-> <<>>,
     pc |-> "wait", ri |-> 0, cancelled |-> FALSE]

\* do_work without the except clause: the exception ends the coroutine
OnException_uncaught(m) ==
    [m EXCEPT !.pc = "done", !.ri = 0,
              !.loc_available = <<>>, !.loc_desired = <<>>, !.loc_to_cache = <<>>]

\* do_work with lines 73-75 in a finally clause: a tick that raises
\* publishes what it had classified
OnException_publishes(m) ==
    [m EXCEPT !.available_images = m.loc_available,
              !.desired_images = m.loc_desired,
              !.images_to_cache = m.loc_to_cache,
              !.pc = "wait", !.ri = 0,
              !.loc_available = <<>>, !.loc_desired = <<>>, !.loc_to_cache = <<>>]

\* do_work lines 76-79: the exception is caught (and logged) and the loop
\* goes to _wait()
OnException(m) ==
    [m EXCEPT !.pc = "wait", !.ri = 0,
              !.loc_available = <<>>, !.loc_desired = <<>>, !.loc_to_cache = <<>>]

\* a step of a tick ends as [m, cl, exc]: the machine, the cluster, and the
\* exception the step raised, or None
Raised(m, cl, exc) == [m |-> OnException(m), cl |-> cl, exc |-> exc]

Went(m, cl) == [m |-> m, cl |-> cl, exc |-> None]

\* the classification that takes any cached image of the same URL as a hit,
\* whatever its digest
Classify_any_digest(m, image) ==
    LET hits == SelectSeq(m.common_cache, LAMBDA i : i.image_url = image.image_url)
    IN  [m EXCEPT !.loc_desired = Append(@, image),
                  !.loc_available = @ \o Repeat(image, Len(hits)),
                  !.loc_to_cache = IF hits = <<>> THEN Append(@, image) ELSE @]

\* do_work lines 56-68 for one image of a strategy
Classify(m, image) ==
    LET hits == SelectSeq(m.common_cache,
                          LAMBDA i : i.image_url = image.image_url
                                     /\ (image.image_hash = None
                                         \/ i.image_hash = image.image_hash))
    IN  [m EXCEPT !.loc_desired = Append(@, image),
                  !.loc_available = @ \o Repeat(image, Len(hits)),
                  !.loc_to_cache = IF hits = <<>> THEN Append(@, image) ELSE @]

RECURSIVE ClassifyAll(_, _)
ClassifyAll(m, images) ==
    IF images = <<>> THEN m
    ELSE ClassifyAll(Classify(m, Head(images)), Tail(images))

\* a publication that leaves the desired list of the tick before in place
Publish_old_desired(m) ==
    [m EXCEPT !.available_images = m.loc_available,
              !.images_to_cache = m.loc_to_cache,
              !.loc_available = <<>>, !.loc_desired = <<>>, !.loc_to_cache = <<>>,
              !.pc = "wait", !.ri = 0]

\* do_work lines 73-75, then _wait()
Publish(m) ==
    [m EXCEPT !.available_images = m.loc_available,
              !.desired_images = m.loc_desired,
              !.images_to_cache = m.loc_to_cache,
              !.loc_available = <<>>, !.loc_desired = <<>>, !.loc_to_cache = <<>>,
              !.pc = "wait", !.ri = 0]

\* the end of the tick with the pull job made for the last missing image
Finish_last_missing(m, cl, fault) ==
    IF m.loc_to_cache = <<>> THEN Went(Publish(m), cl)
    ELSE LET c == caching(cl, m.name, fault)
         IN  IF c.exc # None THEN Raised(m, c.cl, c.exc)
             ELSE IF c.ret THEN Went(Publish(m), c.cl)
             ELSE LET s == start_caching(c.cl, m.name, m.labels,
                                         m.loc_to_cache[Len(m.loc_to_cache)].image_url,
                                         fault)
                  IN  IF s.exc # None THEN Raised(m, s.cl, s.exc)
                      ELSE Went(Publish(m), s.cl)

\* do_work lines 70-79: [m, cl] after the end of the tick
Finish(m, cl, fault) ==
    IF m.loc_to_cache = <<>> THEN Went(Publish(m), cl)
    ELSE LET c == caching(cl, m.name, fault)
         IN  IF c.exc # None THEN Raised(m, c.cl, c.exc)
             ELSE IF c.ret THEN Went(Publish(m), c.cl)
             ELSE LET s == start_caching(c.cl, m.name, m.labels,
                                         m.loc_to_cache[1].image_url, fault)
                  IN  IF s.exc # None THEN Raised(m, s.cl, s.exc)
                      ELSE Went(Publish(m), s.cl)

\* do_work lines 48-55: a tick up to its first await. The poll either
\* raises or replaces self.common_cache
Begin(m, cl, fault) ==
    IF fault = "list_nodes" THEN Raised(m, cl, "ApiException")
    ELSE CHOOSE out \in
            { IF r.raised THEN Raised(m, cl, "KubernetesImageHashNotFound")
              ELSE LET m1 == [m EXCEPT !.common_cache = r.common_cache]
                   IN  IF m.repomen = <<>> THEN Finish(m1, cl, fault)
                       ELSE Went([m1 EXCEPT !.pc = "await", !.ri = 1], cl)
              : r \in {inspect_node_caches(cl.nodes, m.labels)} } : TRUE

\* SimpleRepoMan.desired_images
desired_images(repoman, common_cache) == repoman.images

\* do_work lines 55-68 and on: the strategy call of repomen[ri] returns (or
\* raises); after the last strategy the tick ends
Resume(m, cl, fault) ==
    IF fault = "strategy" THEN Raised(m, cl, "DockerRegistryError")
    ELSE LET m1 == ClassifyAll(m, desired_images(m.repomen[m.ri], m.common_cache))
         IN  IF m.ri < Len(m.repomen)
             THEN Went([m1 EXCEPT !.ri = @ + 1], cl)
             ELSE Finish(m1, cl, fault)

\* ------------------------------------------------------------------------
\* cachemachinemanager.py: CacheMachineManager. reg is [machines, jobs, loops]
\* ------------------------------------------------------------------------
\* release line 109, j.close(timeout=0): Job.close is a coroutine function
\* and the call is not awaited, so the coroutine object it makes is dropped
\* and never runs: the job is not closed and its loop goes on
Close(loops_, j) == loops_

\* Scheduler.close(): every job of the scheduler is closed, its coroutine
\* cancelled
Scheduler_close(loops_) == [l \in 1..Len(loops_) |-> [loops_[l] EXCEPT !.cancelled = TRUE]]

\* a call of the manager returns [reg, exc]: the registry after it and the
\* exception it raised, or None
Returned(reg, exc) == [reg |-> reg, exc |-> exc]

\* release with the machine deleted only together with its job
release_with_job(reg, name) ==
    IF name \in DOMAIN reg.jobs
    THEN IF name \in DOMAIN reg.machines
         THEN Returned([reg EXCEPT !.loops = Close(@, reg.jobs[name]),
                                   !.jobs = Del(@, name),
                                   !.machines = Del(@, name)], None)
         ELSE Returned(reg, "KeyError")
    ELSE Returned(reg, None)

\* CacheMachineManager.release
release(reg, name) ==
    LET r1 == IF name \in DOMAIN reg.jobs
              THEN [reg EXCEPT !.loops = Close(@, reg.jobs[name]),
                               !.jobs = Del(@, name)]
              ELSE reg
    IN  IF name \in DOMAIN r1.machines
        THEN Returned([r1 EXCEPT !.machines = Del(@, name)], None)
        ELSE Returned(r1, None)

\* the types of strategy create() knows
RepoManTypes == {"SimpleRepoMan", "RubinRepoMan", "RubinRepoGar"}

\* create that releases the name before it looks at the strategies
create_release_first(reg, body) ==
    LET r1 == release(reg, body.name)
        cm == CacheMachine(body.name, body.labels, body.repomen)
    IN  IF r1.exc # None THEN r1
        ELSE IF \E i \in 1..Len(body.repomen) : body.repomen[i].type \notin RepoManTypes
        THEN Returned(r1.reg, "RepoManTypeNotFoundError")
        ELSE Returned([r1.reg EXCEPT !.loops = Append(@, cm),
                                     !.machines = Put(@, body.name, Len(r1.reg.loops) + 1)],
                      None)

\* CacheMachineManager.create: the strategies are built first, and a type
\* that is not known raises before anything is released; the job
\* scheduler.spawn() returns is dropped. On a closed scheduler spawn()
\* raises after the machine was registered: its coroutine never runs
create(reg, body) ==
    IF \E i \in 1..Len(body.repomen) : body.repomen[i].type \notin RepoManTypes
    THEN Returned(reg, "RepoManTypeNotFoundError")
    ELSE LET r1 == release(reg, body.name)
             cm == CacheMachine(body.name, body.labels, body.repomen)
         IN  IF r1.exc # None THEN r1
             ELSE IF reg.closed
             THEN Returned([r1.reg EXCEPT
                               !.loops = Append(@, [cm EXCEPT !.cancelled = TRUE]),
                               !.machines = Put(@, body.name, Len(r1.reg.loops) + 1)],
                           "RuntimeError")
             ELSE Returned([r1.reg EXCEPT !.loops = Append(@, cm),
                                          !.machines = Put(@, body.name, Len(r1.reg.loops) + 1)],
                           None)

\* CacheMachineManager.get
get(reg, name) ==
    IF name \in DOMAIN reg.machines THEN reg.loops[reg.machines[name]]
    ELSE "CacheMachineNotFoundError"

\* CacheMachineManager.list
list(reg) == DOMAIN reg.machines

\* ------------------------------------------------------------------------
\* Inputs
\* ------------------------------------------------------------------------
Names == {"a", "b"}

K1 == "k1" :> "v1"

K2 == "k2" :> "v2"

SimpleRepoMan(images) == [type |-> "SimpleRepoMan", images |-> images]

\* DockerImageList.load: image_hash is None when the body gives none
Img(t) == DockerImage(TagUrl(REPO, t), None, t)

ImgH(t) == DockerImage(TagUrl(REPO, t), mock_registry[t], t)

\* POST bodies
Bodies ==
    { [name |-> "a", labels |-> K1,
       repomen |-> <<SimpleRepoMan(<<Img("t1")>>), SimpleRepoMan(<<ImgH("t2")>>)>>],
      [name |-> "b", labels |-> K2,
       repomen |-> <<SimpleRepoMan(<<Img("t2")>>)>>] }

\* POST bodies with a strategy of a type create() does not know
UnknownBodies ==
    { [name |-> "a", labels |-> K1,
       repomen |-> <<SimpleRepoMan(<<Img("t1")>>),
                     [type |-> "NoSuchRepoMan", images |-> <<Img("t2")>>]>>],
      [name |-> "b", labels |-> K2,
       repomen |-> <<[type |-> "NoSuchRepoMan", images |-> <<>>]>>] }

\* the call of a tick that fails, if any
BeginFaults == {"none", "list_nodes"}

ResumeFaults == {"none", "strategy", "status", "create", "delete"}

\* KubernetesMock.__init__: four nodes, n3 unschedulable, n4 tainted; imgs
\* gives each node's image cache
MockNodes(imgs) ==
    << V1Node("n1", K1, FALSE, <<>>, imgs[1]),
       V1Node("n2", K2, FALSE, <<>>, imgs[2]),
       V1Node("n3", K1, TRUE, <<>>, imgs[3]),
       V1Node("n4", K1, FALSE, <<"tainted">>, imgs[4]) >>

Empty == << NoneAtNone >>

Pulled(t) == << TagUrl(REPO, t), HashUrl(REPO, mock_registry[t]) >>

\* the image caches the cluster starts with: the mock's, and caches that
\* already hold images
MockImages == << <<Empty>>, <<Empty>>, <<Empty>>, <<Empty>> >>

ClusterChoices ==
    { MockImages,
      << <<Empty>>, <<Empty, <<TagUrl(REPO, "t1")>> >>,
         <<Pulled("t1")>>, <<Pulled("t1"), Pulled("t2")>> >> }

\* ------------------------------------------------------------------------
\* The system
\* ------------------------------------------------------------------------
Reg == [machines |-> machines, jobs |-> jobs, loops |-> loops, closed |-> closed]

Cl == [nodes |-> nodes, daemonsets |-> daemonsets]

Init ==
    /\ \E imgs \in ClusterChoices : nodes = MockNodes(imgs)
    /\ daemonsets = EmptyMap
    /\ machines = EmptyMap
    /\ jobs = EmptyMap
    /\ loops = <<>>
    /\ logged = None
    /\ closed = FALSE
    /\ called = NoCall
    /\ outcome = NoCall

\* POST /cachemachine/; cleanup() is called from the server's cleanup hook
\* only, after which no request is handled
Create(body) ==
    /\ ~closed
    /\ Len(loops) < MaxLoops
    /\ LET r == create(Reg, body)
       IN  /\ machines' = r.reg.machines
           /\ jobs' = r.reg.jobs
           /\ loops' = r.reg.loops
    /\ UNCHANGED <<nodes, daemonsets, logged, called, outcome, closed>>

\* DELETE /cachemachine/{name}
Release(name) ==
    /\ ~closed
    /\ LET r == release(Reg, name)
       IN  /\ machines' = r.reg.machines
           /\ jobs' = r.reg.jobs
           /\ loops' = r.reg.loops
    /\ UNCHANGED <<nodes, daemonsets, logged, called, outcome, closed>>

Runnable(l) == l \in 1..Len(loops) /\ ~loops[l].cancelled

\* a loop leaves _wait() and runs its tick up to the first await
TickBegin(l, fault) ==
    /\ Runnable(l)
    /\ loops[l].pc = "wait"
    /\ \E r \in {Begin(loops[l], Cl, fault)} :
           /\ loops' = [loops EXCEPT ![l] = r.m]
           /\ nodes' = r.cl.nodes
           /\ daemonsets' = r.cl.daemonsets
           /\ logged' = IF r.exc # None THEN r.exc ELSE logged
    /\ UNCHANGED <<machines, jobs, called, outcome, closed>>

\* the strategy call a loop awaits returns and the tick goes on
TickResume(l, fault) ==
    /\ Runnable(l)
    /\ loops[l].pc = "await"
    /\ \E r \in {Resume(loops[l], Cl, fault)} :
           /\ loops' = [loops EXCEPT ![l] = r.m]
           /\ nodes' = r.cl.nodes
           /\ daemonsets' = r.cl.daemonsets
           /\ logged' = IF r.exc # None THEN r.exc ELSE logged
    /\ UNCHANGED <<machines, jobs, called, outcome, closed>>

\* CacheMachineManager.cleanup: the server shuts down and the scheduler is
\* closed
Cleanup ==
    /\ loops' = Scheduler_close(loops)
    /\ closed' = TRUE
    /\ UNCHANGED <<nodes, daemonsets, machines, jobs, logged, called, outcome>>

Next ==
    \/ \E body \in Bodies : Create(body)
    \/ \E name \in Names : Release(name)
    \/ \E l \in 1..MaxLoops, fault \in BeginFaults : TickBegin(l, fault)
    \/ \E l \in 1..MaxLoops, fault \in ResumeFaults : TickResume(l, fault)
    \/ Cleanup

Spec == Init /\ [][Next]_vars

\* ------------------------------------------------------------------------
\* Fair ticking over the cluster of the tests: targets are created and never
\* released, no call fails, and every loop that can take a step of its tick
\* eventually takes it (_wait() returns, the awaited strategy call returns)
\* ------------------------------------------------------------------------
LiveInit ==
    /\ nodes = MockNodes(MockImages)
    /\ daemonsets = EmptyMap
    /\ machines = EmptyMap
    /\ jobs = EmptyMap
    /\ loops = <<>>
    /\ logged = None
    /\ closed = FALSE
    /\ called = NoCall
    /\ outcome = NoCall

LiveNext ==
    \/ \E body \in Bodies : Create(body)
    \/ \E l \in 1..MaxLoops : TickBegin(l, "none")
    \/ \E l \in 1..MaxLoops : TickResume(l, "none")

SpecLive ==
    /\ LiveInit
    /\ [][LiveNext]_vars
    /\ \A l \in 1..MaxLoops : WF_vars(TickBegin(l, "none"))
    /\ \A l \in 1..MaxLoops : WF_vars(TickResume(l, "none"))

\* ------------------------------------------------------------------------
\* Polling: one target over a cluster whose nodes hold any of these image
\* caches; the only step is the poll of a tick
\* ------------------------------------------------------------------------
NodeCaches ==
    { <<Empty>>,
      <<Pulled("t1")>>,
      <<Pulled("t1"), Pulled("t2")>>,
      << <<TagUrl(REPO, "t1"), HashUrl(REPO, "sha256:y")>> >>,
      << <<TagUrl(REPO, "t1"), TagUrl(REPO, "t2"), HashUrl(REPO, "sha256:x")>> >>,
      <<Pulled("t2"), Pulled("t1"), Pulled("t1")>>,
      << <<NoneColonNone>>, <<TagUrl(REPO, "t1")>> >> }

\* selectors: of n1, n3 and n4; of n2; of no node; of every node
Selectors == {K1, K2, K1 @@ K2, EmptyMap}

PollInit ==
    /\ \E imgs \in [1..4 -> NodeCaches] : nodes = MockNodes(imgs)
    /\ daemonsets = EmptyMap
    /\ \E labels \in Selectors :
          LET r == create([machines |-> EmptyMap, jobs |-> EmptyMap, loops |-> <<>>, closed |-> FALSE],
                          [name |-> "a", labels |-> labels,
                           repomen |-> <<SimpleRepoMan(<<Img("t1")>>)>>])
          IN  /\ machines = r.reg.machines
              /\ jobs = r.reg.jobs
              /\ loops = r.reg.loops
    /\ logged = None
    /\ closed = FALSE
    /\ called = NoCall
    /\ outcome = NoCall

PollNext == \E l \in 1..MaxLoops : TickBegin(l, "none")

SpecPoll == PollInit /\ [][PollNext]_vars

\* ------------------------------------------------------------------------
\* Claims
\* ------------------------------------------------------------------------
\* the images the strategies of a machine return, in strategy order
DesiredOf(m) == Flatten([r \in 1..Len(m.repomen) |-> m.repomen[r].images])

\* C1: for every target name at most one pull job named after it exists, it
\* is a job a controller of that target asked for, and no tick ever asks the
\* cluster for a pull job while one of that name exists (the cluster would
\* answer "Daemonset already exists"): a tick that finds the job still
\* pulling creates no second job.
C1_OnePullJob ==
    /\ logged # "DaemonsetAlreadyExists"
    /\ \A n \in DOMAIN daemonsets :
          \E l \in 1..Len(loops) :
             /\ loops[l].name = n
             /\ loops[l].labels = daemonsets[n].labels
             /\ \E i \in 1..Len(DesiredOf(loops[l])) :
                   DesiredOf(loops[l])[i].image_url = daemonsets[n].image_url

\* a tick has found the job of its target still pulling, and has ended with
\* images still missing
C1_Witness ==
    \E l \in 1..Len(loops) :
       /\ loops[l].pc = "wait"
       /\ loops[l].images_to_cache # <<>>
       /\ loops[l].name \in DOMAIN daemonsets
       /\ daemonsets[loops[l].name].finished

\* C5: the control loop never ends because of an error: whatever a tick
\* raised, every spawned loop is at _wait(), from where it starts another
\* tick, or suspended inside a tick, and it is still scheduled unless the
\* server has shut down and closed the scheduler, which cancels all loops
\* together.
C5_LoopNeverEnds ==
    \A l \in 1..Len(loops) :
       /\ loops[l].pc \in {"wait", "await"}
       /\ Runnable(l) \/ closed

\* the only loop has raised in a tick and is inside another tick
C5_Witness ==
    /\ Len(loops) = 1
    /\ logged # None
    /\ loops[1].pc = "await"

\* C9: release(name) raises no error; after it the name is absent from
\* list() and get(name) reports not-found; for a name that is not
\* registered it leaves the registry unchanged; a second release(name)
\* changes nothing more.
C9_ReleaseIdempotent ==
    \A n \in Names :
       LET r == release(Reg, n)
       IN  /\ r.exc = None
           /\ n \notin list(r.reg)
           /\ get(r.reg, n) = "CacheMachineNotFoundError"
           /\ (n \notin DOMAIN machines /\ n \notin DOMAIN jobs) => r.reg = Reg
           /\ release(r.reg, n) = r

\* a target has been created and then released
C9_Witness ==
    \E l \in 1..Len(loops) :
       /\ loops[l].name \notin list(Reg)
       /\ get(Reg, loops[l].name) = "CacheMachineNotFoundError"

\* C3: once create() has replaced the controller of a name, the old loop
\* of that name runs no further step of a tick.
C3_ReplacedLoopStops ==
    [][\A l \in 1..Len(loops) :
          (\E k \in 1..Len(loops) : k > l /\ loops[k].name = loops[l].name)
             => loops'[l] = loops[l]]_vars

\* C4: once release(name) has removed a target, its loop runs no further
\* step of a tick.
C4_ReleasedLoopStops ==
    [][\A l \in 1..Len(loops) :
          loops[l].name \notin DOMAIN machines => loops'[l] = loops[l]]_vars

\* C8: when release(name) returns, no pull job named after the target is
\* left in the cluster.
C8_ReleaseStopsPullJob ==
    [][\A n \in Names :
          (n \in DOMAIN machines /\ Release(n)) => n \notin DOMAIN daemonsets']_vars

\* d is in the image cache of the node
OnNode(d, n) ==
    LET ni == NodeImages(n).images
    IN  \E i \in 1..Len(ni) :
           /\ ni[i].image_url = d.image_url
           /\ (d.image_hash = None \/ ni[i].image_hash = d.image_hash)

\* the nodes a pull job with these labels places its image on
PullNodes(ns, labels) ==
    {i \in 1..Len(ns) : /\ matches(labels, ns[i].labels)
                        /\ ~ns[i].unschedulable
                        /\ ns[i].taints = <<>>}

\* do_work lines 59-63: the image counts as available
IsAvailable(d, common_cache) ==
    \E i \in 1..Len(common_cache) :
       /\ common_cache[i].image_url = d.image_url
       /\ (d.image_hash = None \/ common_cache[i].image_hash = d.image_hash)

\* C10: a desired image that is on every schedulable, untainted node the
\* selector matches is available in the common cache of the poll that
\* sees it there.
C10_UnschedulableNodesIgnored ==
    [][\A l \in 1..Len(loops) :
          (loops[l].pc = "wait" /\ loops'[l].pc = "await") =>
             \A i \in 1..Len(DesiredOf(loops[l])) :
                LET d == DesiredOf(loops[l])[i]
                    on == PullNodes(nodes', loops[l].labels)
                IN  (on # {} /\ \A n \in on : OnNode(d, nodes'[n]))
                       => IsAvailable(d, loops'[l].common_cache)]_vars

\* the (image URL, digest) pairs of a list of cached images
Pairs(images) == {<<images[i].image_url, images[i].image_hash>> : i \in 1..Len(images)}

\* the nodes whose labels contain the selector
Qualifying(ns, labels) == {i \in 1..Len(ns) : matches(labels, ns[i].labels)}

\* the pairs every qualifying node holds; none when no node qualifies
CommonPairs(ns, labels) ==
    {p \in UNION {Pairs(NodeImages(ns[i]).images) : i \in Qualifying(ns, labels)} :
        \A i \in Qualifying(ns, labels) : p \in Pairs(NodeImages(ns[i]).images)}

\* C6: after a successful poll the common cache holds exactly the (image
\* URL, digest) pairs that are in the structured image set of every node
\* whose labels contain the selector, and nothing when no node qualifies.
\* (Under SpecPoll the nodes are those the poll listed.)
C6_CommonCacheIsIntersection ==
    \A l \in 1..Len(loops) :
       loops[l].pc = "await" =>
          /\ Pairs(loops[l].common_cache) = CommonPairs(nodes, loops[l].labels)
          /\ Qualifying(nodes, loops[l].labels) = {} => loops[l].common_cache = <<>>

\* a poll over several qualifying nodes has kept some pair and dropped one
\* that a qualifying node holds
C6_Witness ==
    \E l \in 1..Len(loops) :
       /\ loops[l].pc = "await"
       /\ Cardinality(Qualifying(nodes, loops[l].labels)) > 1
       /\ loops[l].common_cache # <<>>
       /\ \E i \in Qualifying(nodes, loops[l].labels) :
             Pairs(NodeImages(nodes[i]).images) # Pairs(loops[l].common_cache)

\* loop l is the controller registered for its name
Registered(l) ==
    /\ l \in 1..Len(loops)
    /\ loops[l].name \in DOMAIN machines
    /\ machines[loops[l].name] = l

\* loop l has published: nothing is missing and every desired image is
\* available
Converged(l) ==
    /\ l \in 1..Len(loops)
    /\ loops[l].images_to_cache = <<>>
    /\ loops[l].desired_images = DesiredOf(loops[l])
    /\ loops[l].available_images = loops[l].desired_images

\* C2: under fair ticking the controller registered for a target eventually
\* publishes an empty missing list and an available list equal to the
\* desired list.
C2_EventuallyCached ==
    \A l \in 1..MaxLoops :
       [](Registered(l) => <>(Converged(l) \/ ~Registered(l)))

\* C7: under fair ticking the pull job of a target is eventually deleted
\* also when it was for the last missing image: once the controller reports
\* nothing missing, eventually no pull job of the target is left in the
\* cluster.
C7_LastJobDeleted ==
    \A l \in 1..MaxLoops :
       []((Registered(l) /\ Converged(l)) =>
             <>(~Registered(l) \/ loops[l].name \notin DOMAIN daemonsets))


\* ------------------------------------------------------------------------
\* The manager's API and the cluster's operator: targets are created, also
\* with strategies of unknown type, and released, and the server shuts down; pull jobs are
\* deleted from outside; no call of a tick fails
\* ------------------------------------------------------------------------
\* POST /cachemachine/ with what create() answered kept: the exception it
\* raised, or that it returned
Post(body) ==
    /\ ~closed
    /\ \E r \in {create(Reg, body)} :
          /\ Len(r.reg.loops) <= MaxLoops
          /\ machines' = r.reg.machines
          /\ jobs' = r.reg.jobs
          /\ loops' = r.reg.loops
          /\ outcome' = IF r.exc # None THEN Raise(r.exc) ELSE Return(None)
    /\ UNCHANGED <<nodes, daemonsets, logged, called, closed>>

\* somebody else deletes the daemonset of a target from the cluster
ExternalDelete(name) ==
    /\ name \in DOMAIN daemonsets
    /\ daemonsets' = Del(daemonsets, name)
    /\ UNCHANGED <<nodes, machines, jobs, loops, logged, called, outcome, closed>>

OpsNext ==
    \/ \E body \in Bodies \cup UnknownBodies : Post(body)
    \/ \E name \in Names : Release(name)
    \/ \E name \in Names : ExternalDelete(name)
    \/ \E l \in 1..MaxLoops : TickBegin(l, "none")
    \/ \E l \in 1..MaxLoops : TickResume(l, "none")
    \/ Cleanup

SpecOps == Init /\ [][OpsNext]_vars

\* ------------------------------------------------------------------------
\* rubintag.py: tags. A tag, a display name and every other str of the tag
\* classes is the sequence of its characters, so that matching a regular
\* expression, int(), str.title() and the order of str are computed
\* character by character as Python computes them.
\* ------------------------------------------------------------------------
\* the characters tags are written in, in code point order
Chars ==
    << "-", ".",
       "0", "1", "2", "3", "4", "5", "6", "7", "8", "9",
       "A", "B", "C", "D", "E", "F", "G", "H", "I", "J", "K", "L", "M",
       "N", "O", "P", "Q", "R", "S", "T", "U", "V", "W", "X", "Y", "Z",
       "_",
       "a", "b", "c", "d", "e", "f", "g", "h", "i", "j", "k", "l", "m",
       "n", "o", "p", "q", "r", "s", "t", "u", "v", "w", "x", "y", "z" >>

\* ord(c)
Ord(c) == CHOOSE i \in 1..Len(Chars) : Chars[i] = c

\* \d of the regular expressions
IsDigit(c) == c \in {Chars[i] : i \in 3..12}

IsUpper(c) == c \in {Chars[i] : i \in 13..38}

IsLower(c) == c \in {Chars[i] : i \in 40..65}

\* str.upper() and str.lower() of one character
Upper(c) == IF IsLower(c) THEN Chars[Ord(c) - 27] ELSE c

Lower(c) == IF IsUpper(c) THEN Chars[Ord(c) + 27] ELSE c

\* \w of the regular expressions
IsWord(c) == IsDigit(c) \/ IsUpper(c) \/ IsLower(c) \/ c = "_"

\* the absent str: a group the pattern does not have (md.get() is None), a
\* version without prerelease or build
NoStr == <<None>>

\* the absent int
NoInt == <<>>

\* bool(s) of an optional str
Truthy(s) == s # NoStr /\ s # <<>>

\* s[i:j], both counted from 1
Sub(s, i, j) == SubSeq(s, i, j - 1)

\* the pattern character c matches at position i
At(s, i, c) == i <= Len(s) /\ s[i] = c

\* the literal lit matches from position i
StartsAt(s, i, lit) ==
    /\ i + Len(lit) - 1 <= Len(s)
    /\ SubSeq(s, i, i + Len(lit) - 1) = lit

\* \d+ from position i: the position after the longest run of digits. Every
\* \d+ of TAG is followed by a character that is no digit or by $, so the
\* longest run is the only one that can match.
RECURSIVE DigitsEnd(_, _)
DigitsEnd(s, i) ==
    IF i <= Len(s) /\ IsDigit(s[i]) THEN DigitsEnd(s, i + 1) ELSE i

\* int() of a run of digits
RECURSIVE int(_)
int(ds) ==
    IF ds = <<>> THEN 0
    ELSE 10 * int(SubSeq(ds, 1, Len(ds) - 1)) + (Ord(ds[Len(ds)]) - 3)

\* str() of an int, as the f-strings format it
RECURSIVE str(_)
str(n) ==
    IF n < 10 THEN <<Chars[n + 3]>>
    ELSE str(n \div 10) \o <<Chars[(n % 10) + 3]>>

\* str.replace() of one character
Replace(s, old, new) == [i \in 1..Len(s) |-> IF s[i] = old THEN new ELSE s[i]]

\* str.title(): a letter that follows no letter is upper-cased, a letter
\* that follows a letter is lower-cased
Title(s) ==
    [i \in 1..Len(s) |->
        IF IsUpper(s[i]) \/ IsLower(s[i])
        THEN IF i > 1 /\ (IsUpper(s[i - 1]) \/ IsLower(s[i - 1]))
             THEN Lower(s[i]) ELSE Upper(s[i])
        ELSE s[i]]

\* a < b of two str
RECURSIVE StrLess(_, _)
StrLess(a, b) ==
    IF b = <<>> THEN FALSE
    ELSE IF a = <<>> THEN TRUE
    ELSE IF a[1] = b[1] THEN StrLess(Tail(a), Tail(b))
    ELSE Ord(a[1]) < Ord(b[1])

\* cmp(a, b) of two str
StrCmp(a, b) == IF a = b THEN 0 ELSE IF StrLess(a, b) THEN 0 - 1 ELSE 1

\* the two RubinTagType enums of the repository: members of different Enum
\* classes are never equal, whatever their names
RubinTagType(member) == <<"rubintag.RubinTagType", member>>

rubintagtypes_RubinTagType(member) == <<"rubintagtypes.RubinTagType", member>>

\* tagtype.name
MemberName ==
    [ DAILY |-> <<"D", "A", "I", "L", "Y">>, WEEKLY |-> <<"W", "E", "E", "K", "L", "Y">>, RELEASE |-> <<"R", "E", "L", "E", "A", "S", "E">>,
      RELEASE_CANDIDATE |-> <<"R", "E", "L", "E", "A", "S", "E", "_", "C", "A", "N", "D", "I", "D", "A", "T", "E">>, EXPERIMENTAL |-> <<"E", "X", "P", "E", "R", "I", "M", "E", "N", "T", "A", "L">>,
      ALIAS |-> <<"A", "L", "I", "A", "S">>, UNKNOWN |-> <<"U", "N", "K", "N", "O", "W", "N">> ]

DOCKER_DEFAULT_TAG == <<"l", "a", "t", "e", "s", "t">>

\* match.groupdict(): every named group of TAG, absent ones as NoStr
NoGroups ==
    [ major |-> NoStr, minor |-> NoStr, patch |-> NoStr, pre |-> NoStr,
      year |-> NoStr, week |-> NoStr, month |-> NoStr, day |-> NoStr,
      ctag |-> NoStr, cycle |-> NoStr, cbuild |-> NoStr, rest |-> NoStr ]

\* the result of matching a part of a pattern from the start of the tag: the
\* position it ends before and the groups it captured
Matched(end, md) == [ok |-> TRUE, end |-> end, md |-> md]

NoMatch == [ok |-> FALSE, end |-> 0, md |-> NoGroups]

\* TAG["release"]
TAG_release(s) ==
    LET a == DigitsEnd(s, 2)
        b == DigitsEnd(s, a + 1)
        c == DigitsEnd(s, b + 1)
    IN  IF /\ At(s, 1, "r") /\ a > 2
           /\ At(s, a, "_") /\ b > a + 1
           /\ At(s, b, "_") /\ c > b + 1
        THEN Matched(c, [NoGroups EXCEPT !.major = Sub(s, 2, a),
                                         !.minor = Sub(s, a + 1, b),
                                         !.patch = Sub(s, b + 1, c)])
        ELSE NoMatch

\* TAG["rc"]
TAG_rc(s) ==
    LET r == TAG_release(s)
        e == DigitsEnd(s, r.end + 3)
    IN  IF r.ok /\ StartsAt(s, r.end, <<"_", "r", "c">>) /\ e > r.end + 3
        THEN Matched(e, [r.md EXCEPT !.pre = Sub(s, r.end + 3, e)])
        ELSE NoMatch

\* r(?P<major>\d\d)(?P<minor>\d), the obsolete form of a release
TAG_r170(s) ==
    IF /\ At(s, 1, "r") /\ Len(s) >= 4
       /\ IsDigit(s[2]) /\ IsDigit(s[3]) /\ IsDigit(s[4])
    THEN Matched(5, [NoGroups EXCEPT !.major = Sub(s, 2, 4), !.minor = Sub(s, 4, 5)])
    ELSE NoMatch

\* TAG["weekly"]
TAG_weekly(s) ==
    LET a == DigitsEnd(s, 3)
        b == DigitsEnd(s, a + 1)
    IN  IF /\ StartsAt(s, 1, <<"w", "_">>) /\ a > 3
           /\ At(s, a, "_") /\ b > a + 1
        THEN Matched(b, [NoGroups EXCEPT !.year = Sub(s, 3, a),
                                         !.week = Sub(s, a + 1, b)])
        ELSE NoMatch

\* TAG["daily"]
TAG_daily(s) ==
    LET a == DigitsEnd(s, 3)
        b == DigitsEnd(s, a + 1)
        c == DigitsEnd(s, b + 1)
    IN  IF /\ StartsAt(s, 1, <<"d", "_">>) /\ a > 3
           /\ At(s, a, "_") /\ b > a + 1
           /\ At(s, b, "_") /\ c > b + 1
        THEN Matched(c, [NoGroups EXCEPT !.year = Sub(s, 3, a),
                                         !.month = Sub(s, a + 1, b),
                                         !.day = Sub(s, b + 1, c)])
        ELSE NoMatch

\* TAG["experimental"]
TAG_experimental(s) ==
    IF StartsAt(s, 1, <<"e", "x", "p">>) THEN Matched(4, NoGroups) ELSE NoMatch

\* TAG["cycle"] after a part that matched: (c|csal) takes c when a digit
\* follows it and csal otherwise
TAG_cycle(s, m) ==
    LET p == m.end
        k == IF At(s, p + 1, "c") /\ p + 2 <= Len(s) /\ IsDigit(s[p + 2]) THEN p + 2
             ELSE IF StartsAt(s, p + 1, <<"c", "s", "a", "l">>) THEN p + 5
             ELSE 0
        a == DigitsEnd(s, k)
        b == DigitsEnd(s, a + 1)
    IN  IF /\ m.ok /\ At(s, p, "_") /\ k > 0
           /\ a > k /\ At(s, a, ".") /\ b > a + 1
        THEN Matched(b, [m.md EXCEPT !.ctag = Sub(s, p + 1, k),
                                     !.cycle = Sub(s, k, a),
                                     !.cbuild = Sub(s, a + 1, b)])
        ELSE NoMatch

\* TAG["rest"] + "$" after a part that matched
TAG_rest(s, m) ==
    IF m.ok /\ At(s, m.end, "_")
    THEN Matched(Len(s) + 1, [m.md EXCEPT !.rest = Sub(s, m.end + 1, Len(s) + 1)])
    ELSE NoMatch

\* "$" after a part that matched
TAG_end(s, m) == IF m.ok /\ m.end = Len(s) + 1 THEN m ELSE NoMatch

\* the four patterns of TAG[part], in the order of TAGTYPE_REGEXPS: with
\* cycle and rest, with cycle, with rest, bare
FourOf(tagtype, part) ==
    << [tagtype |-> tagtype, part |-> part, cycle |-> TRUE,  rest |-> TRUE],
       [tagtype |-> tagtype, part |-> part, cycle |-> TRUE,  rest |-> FALSE],
       [tagtype |-> tagtype, part |-> part, cycle |-> FALSE, rest |-> TRUE],
       [tagtype |-> tagtype, part |-> part, cycle |-> FALSE, rest |-> FALSE] >>

\* the list with the release patterns put before the release candidate
\* patterns
TAGTYPE_REGEXPS_release_first ==
    FourOf("RELEASE", "release")
    \o FourOf("RELEASE_CANDIDATE", "rc")
    \o << [tagtype |-> "RELEASE", part |-> "r170", cycle |-> FALSE, rest |-> FALSE] >>
    \o FourOf("WEEKLY", "weekly")
    \o FourOf("DAILY", "daily")
    \o << [tagtype |-> "EXPERIMENTAL", part |-> "experimental",
           cycle |-> FALSE, rest |-> TRUE] >>

TAGTYPE_REGEXPS ==
    FourOf("RELEASE_CANDIDATE", "rc")
    \o FourOf("RELEASE", "release")
    \o << [tagtype |-> "RELEASE", part |-> "r170", cycle |-> FALSE, rest |-> FALSE] >>
    \o FourOf("WEEKLY", "weekly")
    \o FourOf("DAILY", "daily")
    \o << [tagtype |-> "EXPERIMENTAL", part |-> "experimental",
           cycle |-> FALSE, rest |-> TRUE] >>

\* regexp.match(tag)
Match(regexp, s) ==
    LET first == CASE regexp.part = "rc" -> TAG_rc(s)
                   [] regexp.part = "release" -> TAG_release(s)
                   [] regexp.part = "r170" -> TAG_r170(s)
                   [] regexp.part = "weekly" -> TAG_weekly(s)
                   [] regexp.part = "daily" -> TAG_daily(s)
                   [] regexp.part = "experimental" -> TAG_experimental(s)
        second == IF regexp.cycle THEN TAG_cycle(s, first) ELSE first
    IN  IF regexp.rest THEN TAG_rest(s, second) ELSE TAG_end(s, second)

\* RubinPartialTag.prettify_tag
prettify_tag(tag) == Title(Replace(tag, "_", " "))

\* RubinPartialTag.maybe_int
maybe_int(n) == IF n = NoStr THEN NoInt ELSE <<int(n)>>

\* pat.sub("", rest) with pat = [^\w|\.]+
RECURSIVE StripNonWord(_)
StripNonWord(s) ==
    IF s = <<>> THEN <<>>
    ELSE IF IsWord(s[1]) \/ s[1] \in {"|", "."}
         THEN <<s[1]>> \o StripNonWord(Tail(s))
         ELSE StripNonWord(Tail(s))

\* RubinPartialTag.trailing_parts_to_semver_build_component
trailing_parts_to_semver_build_component(cycle, cbuild, ctag, rest) ==
    LET rest1 == IF Truthy(cycle)
                 THEN IF Truthy(rest)
                      THEN ctag \o cycle \o <<".">> \o cbuild \o <<"_">> \o rest
                      ELSE ctag \o cycle \o <<".">> \o cbuild
                 ELSE rest
        rest2 == StripNonWord(Replace(rest1, "_", "."))
    IN  IF ~Truthy(rest1) THEN NoStr
        ELSE IF rest2 = <<>> THEN NoStr
        ELSE rest2

\* semver.VersionInfo, and no version
VersionInfo(major, minor, patch, prerelease, build) ==
    [major |-> major, minor |-> minor, patch |-> patch,
     prerelease |-> prerelease, build |-> build]

NoVersion == [absent |-> TRUE]

\* the dataclass RubinPartialTag
RubinPartialTag(tag, image_type, display_name, semantic_version, cycle) ==
    [tag |-> tag, image_type |-> image_type, display_name |-> display_name,
     semantic_version |-> semantic_version, cycle |-> cycle]

RECURSIVE parse_tag(_)
\* RubinPartialTag.extract_metadata, returning a RubinPartialTag
extract_metadata(md, tag, tagtype) ==
    IF tagtype = "EXPERIMENTAL"
    THEN RubinPartialTag(tag, RubinTagType(tagtype),
                         <<"E", "x", "p", "e", "r", "i", "m", "e", "n", "t", "a", "l", " ">> \o parse_tag(md.rest).display_name,
                         NoVersion, NoInt)
    ELSE LET build == trailing_parts_to_semver_build_component(
                          md.cycle, md.cbuild, md.ctag, md.rest)
             typename == prettify_tag(MemberName[tagtype])
             isrelease == tagtype \in {"RELEASE", "RELEASE_CANDIDATE"}
             major == IF isrelease THEN int(md.major) ELSE int(md.year)
             minor == IF isrelease THEN int(md.minor)
                      ELSE IF tagtype = "WEEKLY" THEN int(md.week)
                      ELSE int(md.month)
             patch == IF isrelease
                      THEN IF md.patch = NoStr THEN 0 ELSE int(md.patch)
                      ELSE IF tagtype = "WEEKLY" THEN 0
                      ELSE int(md.day)
             pre == IF isrelease /\ Truthy(md.pre) THEN <<"r", "c">> \o md.pre ELSE NoStr
             restname ==
                 IF isrelease
                 THEN <<"r">> \o str(major) \o <<".">> \o str(minor) \o <<".">> \o str(patch)
                      \o (IF pre # NoStr THEN <<"-">> \o pre ELSE <<>>)
                 ELSE IF tagtype = "WEEKLY" THEN md.year \o <<"_">> \o md.week
                 ELSE md.year \o <<"_">> \o md.month \o <<"_">> \o md.day
             name == typename \o <<" ">> \o restname
                     \o (IF Truthy(md.cycle)
                         THEN <<" ", "(", "S", "A", "L", " ", "C", "y", "c", "l", "e", " ">> \o md.cycle \o <<",", " ", "B", "u", "i", "l", "d", " ">> \o md.cbuild \o <<")">>
                         ELSE <<>>)
                     \o (IF Truthy(md.rest) THEN <<" ", "[">> \o md.rest \o <<"]">> ELSE <<>>)
         IN  RubinPartialTag(tag, RubinTagType(tagtype), name,
                             VersionInfo(major, minor, patch, pre, build),
                             maybe_int(md.cycle))

\* the loop of RubinPartialTag.parse_tag from the k-th pattern on
RECURSIVE ParseFrom(_, _)
ParseFrom(tag, k) ==
    IF k > Len(TAGTYPE_REGEXPS)
    THEN RubinPartialTag(tag, RubinTagType("UNKNOWN"), tag, NoVersion, NoInt)
    ELSE LET match == Match(TAGTYPE_REGEXPS[k], tag)
         IN  IF ~match.ok THEN ParseFrom(tag, k + 1)
             ELSE extract_metadata(match.md, tag, TAGTYPE_REGEXPS[k].tagtype)

\* RubinPartialTag.parse_tag
parse_tag(tag) ==
    ParseFrom(IF tag = <<>> THEN DOCKER_DEFAULT_TAG ELSE tag, 1)

\* cmp(a, b) of two int
Cmp(a, b) == IF a = b THEN 0 ELSE IF a < b THEN -1 ELSE 1

\* semver's _nat_cmp of two prereleases. The prerelease of a tag is absent
\* or rc<digits>: one part, and not a number, so the parts compare as str.
nat_cmp(a, b) ==
    StrCmp(IF Truthy(a) THEN a ELSE <<>>, IF Truthy(b) THEN b ELSE <<>>)

\* VersionInfo.compare with the build kept in the comparison
VersionInfo_compare_with_build(self, other) ==
    IF self.major # other.major THEN Cmp(self.major, other.major)
    ELSE IF self.minor # other.minor THEN Cmp(self.minor, other.minor)
    ELSE IF self.patch # other.patch THEN Cmp(self.patch, other.patch)
    ELSE IF nat_cmp(self.prerelease, other.prerelease) # 0
         THEN IF ~Truthy(self.prerelease) THEN 1
              ELSE IF ~Truthy(other.prerelease) THEN -1
              ELSE nat_cmp(self.prerelease, other.prerelease)
    ELSE nat_cmp(self.build, other.build)

\* semver's VersionInfo.compare, which RubinPartialTag.compare calls:
\* (major, minor, patch) as a tuple of int, then the prerelease, never the
\* build
VersionInfo_compare(self, other) ==
    IF self.major # other.major THEN Cmp(self.major, other.major)
    ELSE IF self.minor # other.minor THEN Cmp(self.minor, other.minor)
    ELSE IF self.patch # other.patch THEN Cmp(self.patch, other.patch)
    ELSE IF nat_cmp(self.prerelease, other.prerelease) = 0 THEN 0
    ELSE IF ~Truthy(self.prerelease) THEN 1
    ELSE IF ~Truthy(other.prerelease) THEN -1
    ELSE nat_cmp(self.prerelease, other.prerelease)

\* RubinPartialTag.compare without the test of the image types
compare_any_types(self, other) ==
    IF self.semantic_version # NoVersion /\ other.semantic_version # NoVersion
    THEN Return(VersionInfo_compare(self.semantic_version, other.semantic_version))
    ELSE Return(StrCmp(self.tag, other.tag))

\* RubinPartialTag.compare that refuses to order two different tags when one
\* of them carries no semantic version
compare_unversioned_unordered(self, other) ==
    IF self.image_type # other.image_type
    THEN Raise("IncomparableImageTypesError")
    ELSE IF self.semantic_version # NoVersion /\ other.semantic_version # NoVersion
    THEN Return(VersionInfo_compare(self.semantic_version, other.semantic_version))
    ELSE IF self.tag = other.tag THEN Return(0)
    ELSE Raise("IncomparableImageTypesError")

\* RubinPartialTag.compare
compare(self, other) ==
    IF self.image_type # other.image_type
    THEN Raise("IncomparableImageTypesError")
    ELSE IF self.semantic_version # NoVersion /\ other.semantic_version # NoVersion
    THEN Return(VersionInfo_compare(self.semantic_version, other.semantic_version))
    ELSE Return(StrCmp(self.tag, other.tag))

\* the dataclass RubinTag
RubinTag(tag, image_ref, digest, image_type, display_name, semantic_version, cycle) ==
    [tag |-> tag, image_ref |-> image_ref, digest |-> digest,
     image_type |-> image_type, display_name |-> display_name,
     semantic_version |-> semantic_version, cycle |-> cycle]

\* RubinTag.from_tag with the alias test made only for tags no pattern matches
from_tag_pattern_first(tag, image_ref, alias_tags, override_name, digest, override_cycle) ==
    CHOOSE self \in
        { RubinTag(tag, image_ref, digest,
                   IF tag \in alias_tags /\ partial_tag.image_type = RubinTagType("UNKNOWN")
                   THEN RubinTagType("ALIAS") ELSE partial_tag.image_type,
                   IF override_name # <<>> THEN override_name
                   ELSE IF tag \in alias_tags
                           /\ partial_tag.image_type = RubinTagType("UNKNOWN")
                        THEN prettify_tag(tag)
                   ELSE partial_tag.display_name,
                   partial_tag.semantic_version,
                   IF override_cycle # NoInt /\ override_cycle # <<0>>
                   THEN override_cycle ELSE partial_tag.cycle)
          : partial_tag \in {parse_tag(tag)} } : TRUE

\* RubinTag.from_tag; alias_tags is used for membership only, and is a set.
\* partial_tag is bound to the one result of parse_tag(tag).
from_tag(tag, image_ref, alias_tags, override_name, digest, override_cycle) ==
    CHOOSE self \in
        { RubinTag(tag, image_ref, digest,
                   IF tag \in alias_tags THEN RubinTagType("ALIAS")
                   ELSE partial_tag.image_type,
                   IF override_name # <<>> THEN override_name
                   ELSE IF tag \in alias_tags THEN prettify_tag(tag)
                   ELSE partial_tag.display_name,
                   partial_tag.semantic_version,
                   IF override_cycle # NoInt /\ override_cycle # <<0>>
                   THEN override_cycle ELSE partial_tag.cycle)
          : partial_tag \in {parse_tag(tag)} } : TRUE

\* RubinTag.is_recognized
is_recognized(self) ==
    self.image_type \notin {RubinTagType("UNKNOWN"), RubinTagType("ALIAS")}

\* a < b of RubinPartialTag.__lt__, for tags compare() can order
Lt(a, b) == compare(a, b).exc = None /\ compare(a, b).value = -1

\* the descending order of a list that < orders consistently: stable, so
\* tags that compare equal keep the order they came in
RECURSIVE InsertDesc(_, _)
InsertDesc(sorted, x) ==
    IF sorted = <<>> THEN <<x>>
    ELSE IF Lt(Head(sorted), x) THEN <<x>> \o sorted
    ELSE <<Head(sorted)>> \o InsertDesc(Tail(sorted), x)

RECURSIVE StableDesc(_)
StableDesc(xs) ==
    IF xs = <<>> THEN <<>>
    ELSE CHOOSE out \in { InsertDesc(sorted, xs[Len(xs)])
                          : sorted \in {StableDesc(SubSeq(xs, 1, Len(xs) - 1))} } : TRUE

\* < orders the tags of xs consistently: no two are each below the other,
\* below is transitive, and so is being neither below nor above
Ordered(xs) ==
    \E less \in { {p \in (1..Len(xs)) \X (1..Len(xs)) : Lt(xs[p[1]], xs[p[2]])} } :
       \A i \in 1..Len(xs), j \in 1..Len(xs), k \in 1..Len(xs) :
          /\ ~(<<i, j>> \in less /\ <<j, i>> \in less)
          /\ (<<i, j>> \in less /\ <<j, k>> \in less) => <<i, k>> \in less
          /\ ({<<i, j>>, <<j, i>>, <<j, k>>, <<k, j>>} \cap less = {})
                => ({<<i, k>>, <<k, i>>} \cap less = {})

\* the lists that hold the members of xs in some order
Reordered(xs) ==
    { [i \in 1..Len(xs) |-> xs[p[i]]] :
         p \in { f \in [1..Len(xs) -> 1..Len(xs)] :
                    \A i \in 1..Len(xs), j \in 1..Len(xs) : f[i] = f[j] => i = j } }

\* the lists sorted(xs, reverse=True) can return. Where < orders the tags
\* consistently that is the one stable descending order. Tags of type ALIAS
\* or UNKNOWN of which some have a semantic version and some have none can
\* be ordered in a cycle (versions by number, the others by text); Python
\* leaves the result of such a sort open, beyond its holding the members
\* of xs
SortedDesc(xs) == IF Ordered(xs) THEN {StableDesc(xs)} ELSE Reordered(xs)

\* xs[:count]
Take(xs, count) == SubSeq(xs, 1, IF count < Len(xs) THEN count ELSE Len(xs))

\* [t for t in all_tags if t.image_type == img_type]
RECURSIVE OfType(_, _)
OfType(all_tags, img_type) ==
    IF all_tags = <<>> THEN <<>>
    ELSE IF Head(all_tags).image_type = img_type
         THEN <<Head(all_tags)>> \o OfType(Tail(all_tags), img_type)
         ELSE OfType(Tail(all_tags), img_type)

\* RubinTagList.to_dockerimagelist, name_is_tag False
to_dockerimagelist(all_tags) ==
    [i \in 1..Len(all_tags) |->
        DockerImage(all_tags[i].image_ref,
                    IF all_tags[i].digest = None THEN "" ELSE all_tags[i].digest,
                    all_tags[i].display_name)]

\* RubinTagList.sorted_images: the lists it can return
sorted_images(all_tags, img_type, count) ==
    { to_dockerimagelist(Take(imgs, count)) : imgs \in SortedDesc(OfType(all_tags, img_type)) }

\* ------------------------------------------------------------------------
\* rubinrepoman.py: the strategy that picks images by Rubin tags
\* ------------------------------------------------------------------------
\* f"{self.registry_url}/{self.repo}" of the tests
RubinRepo == "registry.hub.docker.com/lsstsqre/sciplat-lab"

\* RubinRepoMan.__init__; an absent recommended_tag is NoStr, an absent
\* cycle NoInt, an absent alias_tags {}
RubinRepoMan(body) ==
    [type |-> "RubinRepoMan",
     repo |-> body.repo,
     recommended_tag |-> body.recommended_tag,
     num_dailies |-> body.num_dailies,
     num_weeklies |-> body.num_weeklies,
     num_releases |-> body.num_releases,
     cycle |-> body.cycle,
     alias_tags |-> body.alias_tags \cup {DOCKER_DEFAULT_TAG}
                    \cup (IF Truthy(body.recommended_tag)
                          THEN {body.recommended_tag} ELSE {})]

\* sorted(tags, reverse=True) of the tags of a registry
RECURSIVE SortedReverse(_)
SortedReverse(tags) ==
    IF tags = {} THEN <<>>
    ELSE LET top == CHOOSE t \in tags : \A u \in tags : ~StrLess(t, u)
         IN  <<top>> \o SortedReverse(tags \ {top})

\* what follows the colon of a digest
DigestTail ==
    ("sha256:x" :> <<"x">>) @@ ("sha256:y" :> <<"y">>) @@ ("sha256:9" :> <<"9">>)
    @@ ("sha256:e" :> <<"e">>)
    @@ ("sha256:b0b7d97ff9d62ccd049" :> <<"b", "0", "b", "7", "d", "9", "7", "f", "f", "9", "d", "6", "2", "c", "c", "d", "0", "4", "9">>)
    @@ ("sha256:0000deadbeeffaceffff" :> <<"0", "0", "0", "0", "d", "e", "a", "d", "b", "e", "e", "f", "f", "a", "c", "e", "f", "f", "f", "f">>)
    @@ ("sha256:3fc76a592a063b9532f" :> <<"3", "f", "c", "7", "6", "a", "5", "9", "2", "a", "0", "6", "3", "b", "9", "5", "3", "2", "f">>)
    @@ ("sha256:77cd87542ba742ba407" :> <<"7", "7", "c", "d", "8", "7", "5", "4", "2", "b", "a", "7", "4", "2", "b", "a", "4", "0", "7">>)
    @@ ("sha256:6259c1b6c6a3d042b5" :> <<"6", "2", "5", "9", "c", "1", "b", "6", "c", "6", "a", "3", "d", "0", "4", "2", "b", "5">>)
    @@ ("sha256:bb16e5ea71bd7139779" :> <<"b", "b", "1", "6", "e", "5", "e", "a", "7", "1", "b", "d", "7", "1", "3", "9", "7", "7", "9">>)
    @@ ("sha256:343b17341d0e961472" :> <<"3", "4", "3", "b", "1", "7", "3", "4", "1", "d", "0", "e", "9", "6", "1", "4", "7", "2">>)
    @@ ("sha256:badb17341d0e961471" :> <<"b", "a", "d", "b", "1", "7", "3", "4", "1", "d", "0", "e", "9", "6", "1", "4", "7", "1">>)

\* RubinRepoMan._tag_from_ref of a reference <<repository, ":", tag>> or
\* <<repository, "@", digest>> whose repository and tag hold no colon and no
\* at sign. The first pattern wants a colon before the at sign and matches
\* neither; the second takes what follows the last colon: the tag, or the
\* rest of the digest; a reference without a colon has the default tag
tag_from_ref(ref) ==
    IF Len(ref) = 3 /\ ref[2] = ":" THEN ref[3]
    ELSE IF Len(ref) = 3 /\ ref[2] = "@" /\ ref[3] \in DOMAIN DigestTail
    THEN DigestTail[ref[3]]
    ELSE DOCKER_DEFAULT_TAG

\* the hashcache of RubinRepoMan._cachehashes: the digest the first cached
\* image that carries a tag has
RECURSIVE cachehashes(_, _)
cachehashes(hashcache, common_cache) ==
    IF common_cache = <<>> THEN hashcache
    ELSE LET i == Head(common_cache)
             tag == tag_from_ref(i.image_url)
             alltags == (IF tag # <<>> THEN <<tag>> ELSE <<>>) \o i.tags
             more == {alltags[k] : k \in 1..Len(alltags)} \ DOMAIN hashcache
         IN  cachehashes(
                 IF i.image_hash \in {None, ""} \/ alltags = <<>> THEN hashcache
                 ELSE [t \in DOMAIN hashcache \cup more |->
                          IF t \in DOMAIN hashcache THEN hashcache[t]
                          ELSE i.image_hash],
                 Tail(common_cache))

\* hashcache.get(t)
HashGet(hashcache, t) == IF t \in DOMAIN hashcache THEN hashcache[t] ELSE None

\* the dataclass DesiredImageList
DesiredImageList(images, all_images) ==
    [desired_images |-> images, all_images |-> all_images]

\* the loop of desired_images (lines 150-228) from the k-th tag on; st holds
\* pull_images and all_tags. For an alias tag the loop builds a display name
\* (lines 164-198) and then calls from_tag() with the keyword cycle, which
\* from_tag() does not have.
RECURSIVE TagLoop(_, _, _, _, _)
TagLoop(self, tags, k, hashcache, st) ==
    IF k > Len(tags) THEN Return(st)
    ELSE CHOOSE out \in
            { IF tags[k] \in self.alias_tags THEN Raise("TypeError")
              ELSE TagLoop(self, tags, k + 1, hashcache, next)
              : next \in
                  { [pull_images |->
                        IF tags[k] = self.recommended_tag
                        THEN <<DockerImage(tagobj.image_ref, tagobj.digest,
                                           tagobj.display_name)>>
                             \o st.pull_images
                        ELSE st.pull_images,
                     all_tags |->
                        IF self.cycle # NoInt /\ tagobj.cycle # self.cycle
                        THEN st.all_tags
                        ELSE Append(st.all_tags, tagobj)]
                    : tagobj \in { from_tag(tags[k], TagUrl(self.repo, tags[k]),
                                            self.alias_tags, <<>>,
                                            HashGet(hashcache, tags[k]), NoInt) } } }
            : TRUE

\* the images of tags[:count], named by display name (lines 256-285)
PullOf(tags, count) ==
    [i \in 1..Len(Take(tags, count)) |->
        DockerImage(tags[i].image_ref, tags[i].digest, tags[i].display_name)]

\* RubinRepoMan.desired_images; registry is what the DockerClient answers
\* with, tag -> digest. The types the tags are picked by are members of
\* rubintagtypes.RubinTagType (rubinrepoman.py line 11), the image_type of a
\* tag is a member of rubintag.RubinTagType. The value is the set of what
\* the call can return or raise: one outcome for each result its three
\* sorts can have.
RubinRepoMan_desired_images(self, registry, common_cache) ==
    UNION
        { IF loop.exc # None THEN {loop}
          ELSE { Return(DesiredImageList(
                            loop.value.pull_images
                            \o PullOf(releases, self.num_releases)
                            \o PullOf(weeklies, self.num_weeklies)
                            \o PullOf(dailies, self.num_dailies),
                            [i \in 1..Len(all_tags) |->
                                DockerImage(all_tags[i].image_ref,
                                            IF all_tags[i].digest = None THEN ""
                                            ELSE all_tags[i].digest,
                                            all_tags[i].tag)]))
                 : all_tags \in {loop.value.all_tags},
                   releases \in SortedDesc(OfType(loop.value.all_tags,
                                                  rubintagtypes_RubinTagType("RELEASE"))),
                   weeklies \in SortedDesc(OfType(loop.value.all_tags,
                                                  rubintagtypes_RubinTagType("WEEKLY"))),
                   dailies \in SortedDesc(OfType(loop.value.all_tags,
                                                 rubintagtypes_RubinTagType("DAILY"))) }
          : loop \in { TagLoop(self, tags, 1, hashcache,
                               [pull_images |-> <<>>, all_tags |-> <<>>])
                       : tags \in {SortedReverse(DOMAIN registry)},
                         hashcache \in {cachehashes(EmptyMap, common_cache)} } }

\* ------------------------------------------------------------------------
\* Calls of the tag functions and of the Rubin strategy
\* ------------------------------------------------------------------------
\* the most images of one type a strategy is configured to pull
MaxCount == 2

\* what the tags begin with: releases whose numbers order differently as
\* numbers and as text, release candidates, the obsolete release form,
\* weeklies, dailies, experimentals, names, and mixed case
TagHeads ==
    { <<"r", "2", "1", "_", "0", "_", "0">>, <<"r", "2", "1", "_", "0", "_", "1">>, <<"r", "9", "_", "0", "_", "0">>, <<"r", "1", "0", "_", "0", "_", "0">>,
      <<"r", "2", "1", "_", "0", "_", "0", "_", "r", "c", "1">>, <<"r", "2", "1", "_", "0", "_", "0", "_", "r", "c", "2">>, <<"r", "2", "1", "_", "0", "_", "0", "_", "r", "c", "1", "0">>,
      <<"r", "1", "7", "0">>, <<"w", "_", "2", "0", "2", "1", "_", "2", "2">>, <<"w", "_", "2", "0", "2", "1", "_", "0", "3">>, <<"W", "_", "2", "0", "2", "1", "_", "2", "2">>, <<"d", "_", "2", "0", "2", "1", "_", "0", "1", "_", "1", "3">>,
      <<"e", "x", "p">>, <<"e", "x", "p", "_", "w", "_", "2", "0", "2", "1", "_", "2", "2">>, <<"r", "e", "c", "o", "m", "m", "e", "n", "d", "e", "d">>, <<"l", "a", "t", "e", "s", "t">>, <<"M", "i", "X", "e", "D", "_", "C", "a", "S", "e", "_", "T", "a", "G">> }

\* what they end with: nothing, a cycle, a remainder, both, a remainder in
\* upper case, a remainder with a character no build may hold
TagTails ==
    { <<>>, <<"_", "c", "0", "0", "2", "0", ".", "0", "0", "1">>, <<"_", "c", "s", "a", "l", "1", "9", ".", "2">>, <<"_", "x">>, <<"_", "c", "0", "0", "2", "0", ".", "0", "0", "1", "_", "x">>, <<"_", "A", "B", "C">>, <<"_", "a", "-", "b">> }

\* the tags called with, the empty tag among them
Tags == {h \o t : h \in TagHeads, t \in TagTails} \cup {<<>>}

\* the tags compared with each other
ComparedTags == {h \o t : h \in TagHeads, t \in {<<>>, <<"_", "c", "0", "0", "2", "0", ".", "0", "0", "1">>, <<"_", "x">>}} \cup {<<>>}

\* the alias_tags called with
AliasSets ==
    { {},
      {<<"r", "e", "c", "o", "m", "m", "e", "n", "d", "e", "d">>, <<"l", "a", "t", "e", "s", "t">>},
      {<<"r", "e", "c", "o", "m", "m", "e", "n", "d", "e", "d">>, <<"r", "2", "1", "_", "0", "_", "0">>, <<"r", "2", "1", "_", "0", "_", "0", "_", "x">>, <<"r", "2", "1", "_", "0", "_", "0", "_", "r", "c", "1">>, <<"w", "_", "2", "0", "2", "1", "_", "2", "2">>,
       <<"e", "x", "p", "_", "x">>, <<"M", "i", "X", "e", "D", "_", "C", "a", "S", "e", "_", "T", "a", "G">>, <<"l", "a", "t", "e", "s", "t", "_", "x">>, <<>>} }

\* the override_name called with
OverrideNames == {<<>>, <<"R", "e", "c", "o", "m", "m", "e", "n", "d", "e", "d", " ", "(", "R", "e", "l", "e", "a", "s", "e", " ", "r", "2", "1", ".", "0", ".", "0", ")">>}

\* registries: the one of the tests (tests/conftest.py), and two that hold
\* no alias tag
Registries ==
    { (<<"p", "r", "e", "p", "u", "l", "l", "e", "r", "_", "p", "u", "l", "l", "e", "d", "_", "r", "e", "c", "o", "m", "m", "e", "n", "d", "e", "d">> :> "sha256:b0b7d97ff9d62ccd049")
      @@ (<<"r", "e", "c", "o", "m", "m", "e", "n", "d", "e", "d">> :> "sha256:b0b7d97ff9d62ccd049")
      @@ (<<"r", "2", "2", "_", "0", "_", "0", "_", "r", "c", "1">> :> "sha256:0000deadbeeffaceffff")
      @@ (<<"r", "2", "1", "_", "0", "_", "0">> :> "sha256:b0b7d97ff9d62ccd049")
      @@ (<<"w", "_", "2", "0", "2", "1", "_", "2", "2">> :> "sha256:3fc76a592a063b9532f")
      @@ (<<"w", "_", "2", "0", "2", "1", "_", "2", "1", "_", "c", "0", "0", "2", "1", ".", "0", "0", "3">> :> "sha256:77cd87542ba742ba407")
      @@ (<<"w", "_", "2", "0", "2", "1", "_", "1", "9", "_", "c", "0", "0", "2", "0", ".", "0", "0", "1">> :> "sha256:6259c1b6c6a3d042b5")
      @@ (<<"w", "_", "2", "0", "2", "1", "_", "0", "3">> :> "sha256:bb16e5ea71bd7139779")
      @@ (<<"d", "_", "2", "0", "2", "1", "_", "0", "1", "_", "1", "3">> :> "sha256:343b17341d0e961472")
      @@ (<<"d", "_", "2", "0", "2", "1", "_", "0", "1", "_", "1", "2">> :> "sha256:badb17341d0e961471"),
      (<<"r", "2", "2", "_", "0", "_", "0", "_", "r", "c", "1">> :> "sha256:0000deadbeeffaceffff")
      @@ (<<"r", "2", "1", "_", "0", "_", "0">> :> "sha256:b0b7d97ff9d62ccd049")
      @@ (<<"r", "9", "_", "0", "_", "0">> :> "sha256:9")
      @@ (<<"w", "_", "2", "0", "2", "1", "_", "2", "2">> :> "sha256:3fc76a592a063b9532f")
      @@ (<<"w", "_", "2", "0", "2", "1", "_", "2", "1", "_", "c", "0", "0", "2", "1", ".", "0", "0", "3">> :> "sha256:77cd87542ba742ba407")
      @@ (<<"w", "_", "2", "0", "2", "1", "_", "0", "3">> :> "sha256:bb16e5ea71bd7139779")
      @@ (<<"d", "_", "2", "0", "2", "1", "_", "0", "1", "_", "1", "3">> :> "sha256:343b17341d0e961472")
      @@ (<<"d", "_", "2", "0", "2", "1", "_", "0", "1", "_", "1", "2">> :> "sha256:badb17341d0e961471"),
      (<<"r", "2", "1", "_", "0", "_", "0">> :> "sha256:b0b7d97ff9d62ccd049")
      @@ (<<"e", "x", "p", "_", "w", "_", "2", "0", "2", "1", "_", "2", "2">> :> "sha256:e") }

\* the bodies a RubinRepoMan is made of
RubinBodies ==
    { [type |-> "RubinRepoMan", repo |-> RubinRepo, recommended_tag |-> rec,
       num_releases |-> nr, num_weeklies |-> nw, num_dailies |-> nd,
       cycle |-> cycle, alias_tags |-> {}] :
      rec \in {NoStr, <<"r", "e", "c", "o", "m", "m", "e", "n", "d", "e", "d">>}, nr \in 1..MaxCount, nw \in 1..MaxCount,
      nd \in 1..MaxCount, cycle \in {NoInt, <<21>>} }

\* the common caches desired_images is called with: nothing pulled, one
\* release pulled, and a cache made by hand whose images are named by a
\* digest and by an empty tag
CommonCaches ==
    { <<>>,
      << CachedDockerImage(TagUrl(RubinRepo, <<"r", "2", "1", "_", "0", "_", "0">>),
                           "sha256:b0b7d97ff9d62ccd049", <<>>) >>,
      << CachedDockerImage(TagUrl(RubinRepo, <<>>),
                           "sha256:3fc76a592a063b9532f", <<>>),
         CachedDockerImage(HashUrl(RubinRepo, "sha256:b0b7d97ff9d62ccd049"),
                           "sha256:0000deadbeeffaceffff", <<<<"r", "2", "1", "_", "0", "_", "0">>>>) >> }

\* every behaviour makes one call: the functions keep no state between calls
TagInit ==
    /\ nodes = <<>>
    /\ daemonsets = EmptyMap
    /\ machines = EmptyMap
    /\ jobs = EmptyMap
    /\ loops = <<>>
    /\ logged = None
    /\ closed = FALSE
    /\ called = NoCall
    /\ outcome = NoCall

\* RubinPartialTag.parse_tag(tag)
ParseTag ==
    /\ called = NoCall
    /\ \E tag \in Tags :
          /\ called' = [op |-> "parse_tag", tag |-> tag]
          /\ outcome' = Return(parse_tag(tag))
    /\ UNCHANGED <<nodes, daemonsets, machines, jobs, loops, logged, closed>>

\* RubinTag.from_tag(tag, alias_tags=alias_tags, override_name=override_name)
FromTag ==
    /\ called = NoCall
    /\ \E tag \in Tags, alias_tags \in AliasSets, override_name \in OverrideNames :
          /\ called' = [op |-> "from_tag", tag |-> tag, alias_tags |-> alias_tags,
                        override_name |-> override_name]
          /\ outcome' = Return(from_tag(tag, <<>>, alias_tags, override_name, None, NoInt))
    /\ UNCHANGED <<nodes, daemonsets, machines, jobs, loops, logged, closed>>

\* RubinTag.from_tag(a, alias_tags=alias_tags).compare(
\*     RubinTag.from_tag(b, alias_tags=alias_tags))
Compare ==
    /\ called = NoCall
    /\ \E a \in ComparedTags, b \in ComparedTags, alias_tags \in AliasSets :
          \E self \in {from_tag(a, <<>>, alias_tags, <<>>, None, NoInt)},
             other \in {from_tag(b, <<>>, alias_tags, <<>>, None, NoInt)} :
             /\ called' = [op |-> "compare", self |-> self, other |-> other]
             /\ outcome' = compare(self, other)
    /\ UNCHANGED <<nodes, daemonsets, machines, jobs, loops, logged, closed>>

\* RubinRepoMan(body).desired_images(common_cache) over a registry
DesiredImages ==
    /\ called = NoCall
    /\ \E body \in RubinBodies, registry \in Registries, common_cache \in CommonCaches :
          /\ called' = [op |-> "desired_images", body |-> body, registry |-> registry,
                        common_cache |-> common_cache]
          /\ outcome' \in RubinRepoMan_desired_images(RubinRepoMan(body), registry,
                                                       common_cache)
    /\ UNCHANGED <<nodes, daemonsets, machines, jobs, loops, logged, closed>>

TagNext == ParseTag \/ FromTag \/ Compare \/ DesiredImages

SpecTag == TagInit /\ [][TagNext]_vars

\* ------------------------------------------------------------------------
\* Properties of the tag classes and of the Rubin strategy
\* ------------------------------------------------------------------------
\* the image types of the two tags of a compare() call
SameType(c) == c.self.image_type = c.other.image_type

\* image.image_url of every image of a list
UrlsOf(images) == [i \in 1..Len(images) |-> images[i].image_url]

\* C11: comparing two tags whose image types differ raises
\* IncomparableImageTypesError, whatever the two types are and whichever tag
\* comes first; it returns no ordering.
C11_DifferentKindsIncomparable ==
    (called.op = "compare" /\ ~SameType(called))
        => outcome.exc = "IncomparableImageTypesError"

\* a weekly compared with a daily, and the error raised
C11_Witness ==
    /\ called.op = "compare"
    /\ called.self.image_type = RubinTagType("WEEKLY")
    /\ called.other.image_type = RubinTagType("DAILY")
    /\ outcome.exc = "IncomparableImageTypesError"

\* C12 as stated: two tags that are both ALIAS or both UNKNOWN compare equal
\* when their tag strings are equal and raise otherwise; compare never
\* answers less or greater for them.
C12_AliasUnknownNoOrdering ==
    (/\ called.op = "compare"
     /\ SameType(called)
     /\ called.self.image_type \in {RubinTagType("ALIAS"), RubinTagType("UNKNOWN")})
        => IF called.self.tag = called.other.tag
           THEN (outcome.exc = None /\ outcome.value = 0)
           ELSE outcome.exc # None

\* C12 amended: for two tags that are both ALIAS or both UNKNOWN compare
\* never raises; unless both carry a semantic version it answers equal only
\* when the tag strings are equal, and otherwise less or greater by the
\* lexicographic order of the tag strings.
C12_AliasUnknownOrderedByTag ==
    (/\ called.op = "compare"
     /\ SameType(called)
     /\ called.self.image_type \in {RubinTagType("ALIAS"), RubinTagType("UNKNOWN")})
        => /\ outcome.exc = None
           /\ (called.self.semantic_version = NoVersion
               \/ called.other.semantic_version = NoVersion)
                  => outcome.value =
                         (IF called.self.tag = called.other.tag THEN 0
                          ELSE IF StrLess(called.self.tag, called.other.tag) THEN 0 - 1
                          ELSE 1)

\* the aliases recommended and latest compared: recommended is the greater
C12_Witness ==
    /\ called.op = "compare"
    /\ called.self.image_type = RubinTagType("ALIAS")
    /\ called.other.image_type = RubinTagType("ALIAS")
    /\ called.self.tag = <<"r", "e", "c", "o", "m", "m", "e", "n", "d", "e", "d">>
    /\ called.other.tag = <<"l", "a", "t", "e", "s", "t">>
    /\ (outcome.exc = None /\ outcome.value = 1)

\* C13: two tags of one type that both carry a semantic version are ordered
\* by (major, minor, patch) as numbers; with these equal a version without
\* prerelease is above one with a prerelease, and the build is ignored: two
\* tags that differ in their cycle or remainder only compare equal.
C13_SemverOrder ==
    (/\ called.op = "compare"
     /\ SameType(called)
     /\ called.self.semantic_version # NoVersion
     /\ called.other.semantic_version # NoVersion)
        => LET a == called.self.semantic_version
               b == called.other.semantic_version
               less(x, y) ==
                   \/ x.major < y.major
                   \/ x.major = y.major /\ x.minor < y.minor
                   \/ x.major = y.major /\ x.minor = y.minor /\ x.patch < y.patch
               same == a.major = b.major /\ a.minor = b.minor /\ a.patch = b.patch
           IN  /\ outcome.exc = None
               /\ less(a, b) => outcome.value = 0 - 1
               /\ less(b, a) => outcome.value = 1
               /\ (same /\ ~Truthy(a.prerelease) /\ ~Truthy(b.prerelease))
                      => outcome.value = 0
               /\ (same /\ ~Truthy(a.prerelease) /\ Truthy(b.prerelease))
                      => outcome.value = 1
               /\ (same /\ Truthy(a.prerelease) /\ ~Truthy(b.prerelease))
                      => outcome.value = 0 - 1

\* a release with a cycle compared with the same release with a remainder:
\* the builds differ, and the two are equal
C13_Witness ==
    /\ called.op = "compare"
    /\ called.self.tag = <<"r", "2", "1", "_", "0", "_", "0", "_", "c", "0", "0", "2", "0", ".", "0", "0", "1">>
    /\ called.other.tag = <<"r", "2", "1", "_", "0", "_", "0", "_", "x">>
    /\ called.self.image_type = RubinTagType("RELEASE")
    /\ called.self.semantic_version.build # called.other.semantic_version.build
    /\ (outcome.exc = None /\ outcome.value = 0)

\* C14: a tag that holds an upper-case letter is of type UNKNOWN, whatever
\* pattern the tag or its beginning matches.
C14_UpperCaseIsUnknown ==
    (called.op = "parse_tag" /\ \E i \in 1..Len(called.tag) : IsUpper(called.tag[i]))
        => outcome.value.image_type = RubinTagType("UNKNOWN")

\* C15: a tag that is in the alias tags is of type ALIAS and is displayed
\* under its title-cased tag (no name overriding it), whether or not it
\* matches the pattern of a release, weekly, daily or experimental.
C15_AliasWins ==
    (/\ called.op = "from_tag"
     /\ called.tag \in called.alias_tags
     /\ called.override_name = <<>>)
        => /\ outcome.value.image_type = RubinTagType("ALIAS")
           /\ outcome.value.display_name = Title(Replace(called.tag, "_", " "))

\* the tag of a release that is an alias: its type is ALIAS, not RELEASE
C15_Witness ==
    /\ called.op = "from_tag"
    /\ called.tag = <<"r", "2", "1", "_", "0", "_", "0">>
    /\ called.tag \in called.alias_tags
    /\ called.override_name = <<>>
    /\ parse_tag(called.tag).image_type = RubinTagType("RELEASE")
    /\ outcome.value.image_type = RubinTagType("ALIAS")
    /\ outcome.value.display_name = <<"R", "2", "1", " ", "0", " ", "0">>

\* the tags of a registry as RubinTag, highest tag string first
TagsOf(self, registry) ==
    LET tags == SortedReverse(DOMAIN registry)
    IN  [i \in 1..Len(tags) |->
            from_tag(tags[i], TagUrl(self.repo, tags[i]), self.alias_tags, <<>>,
                     None, NoInt)]

\* C16: the images the Rubin strategy wants pulled (no cycle configured) are
\* the recommended tag, when one is configured and the registry holds it,
\* then the num_releases highest releases, the num_weeklies highest weeklies
\* and the num_dailies highest dailies, each highest first; a release
\* candidate is no release.
C16_PriorityList ==
    (called.op = "desired_images" /\ called.body.cycle = NoInt)
        => LET self == RubinRepoMan(called.body)
               all_tags == TagsOf(self, called.registry)
               rec == self.recommended_tag
           IN  /\ outcome.exc = None
               /\ \E releases \in sorted_images(all_tags, RubinTagType("RELEASE"),
                                                 self.num_releases),
                     weeklies \in sorted_images(all_tags, RubinTagType("WEEKLY"),
                                                self.num_weeklies),
                     dailies \in sorted_images(all_tags, RubinTagType("DAILY"),
                                               self.num_dailies) :
                     UrlsOf(outcome.value.desired_images) =
                        (IF Truthy(rec) /\ rec \in DOMAIN called.registry
                         THEN <<TagUrl(self.repo, rec)>> ELSE <<>>)
                        \o UrlsOf(releases) \o UrlsOf(weeklies) \o UrlsOf(dailies)

\* ------------------------------------------------------------------------
\* Properties of create() and of the pull job of a tick
\* ------------------------------------------------------------------------
\* C17: create() with a strategy of unknown type raises
\* RepoManTypeNotFoundError and leaves the registry as it was: no machine is
\* added, no loop is spawned, and every registered target, one of the same
\* name included, stays registered with its loop as it was.
C17_UnknownTypeRejected ==
    [][\A body \in UnknownBodies :
          Post(body) => /\ outcome' = Raise("RepoManTypeNotFoundError")
                        /\ machines' = machines
                        /\ jobs' = jobs
                        /\ loops' = loops]_vars

\* the last create() was refused while a target of the name it was for is
\* registered, its loop inside a tick
C17_Witness ==
    /\ outcome = Raise("RepoManTypeNotFoundError")
    /\ "a" \in DOMAIN machines
    /\ Runnable(machines["a"])
    /\ loops[machines["a"]].pc = "await"

\* the missing list of the tick loop m is in: the desired images, in the
\* order of the strategies and of each strategy's answer, that are not
\* available in the common cache of the tick
Missing(m) == SelectSeq(DesiredOf(m), LAMBDA d : ~IsAvailable(d, m.common_cache))

\* this step has created the pull job of name: there is one that no status
\* check has seen, and there was none, or one whose status had been checked
JobCreated(name) ==
    /\ name \in DOMAIN daemonsets'
    /\ ~daemonsets'[name].finished
    /\ (name \notin DOMAIN daemonsets \/ daemonsets[name].finished)

\* C18: a tick that creates a pull job creates it for the first image of
\* its missing list, which is the desired images that are not available in
\* the common cache of the tick, in the order of the desired list.
C18_JobForFirstMissing ==
    [][\A l \in 1..Len(loops) :
          (/\ JobCreated(loops[l].name)
           /\ loops[l].pc = "await"
           /\ loops'[l].pc = "wait"
           /\ \E fault \in ResumeFaults : TickResume(l, fault)) =>
             /\ Missing(loops[l]) # <<>>
             /\ daemonsets'[loops[l].name].image_url = Missing(loops[l])[1].image_url
             /\ loops'[l].images_to_cache = Missing(loops[l])]_vars

\* a tick has made the pull job for its second desired image, the first
\* being available
C18_Witness ==
    \E l \in 1..Len(loops) :
       /\ loops[l].name \in DOMAIN daemonsets
       /\ ~daemonsets[loops[l].name].finished
       /\ loops[l].pc = "wait"
       /\ Len(loops[l].desired_images) = 2
       /\ loops[l].images_to_cache = <<loops[l].desired_images[2]>>
       /\ daemonsets[loops[l].name].image_url = loops[l].desired_images[2].image_url

\* the tick of loop l ends with this step, no call failing, and finds the
\* pull job of its target finished: images are missing, so the status is
\* asked for, and the job's status had been checked before
FindsFinished(l) ==
    /\ loops[l].pc = "await"
    /\ loops[l].ri = Len(loops[l].repomen)
    /\ loops[l].name \in DOMAIN daemonsets
    /\ daemonsets[loops[l].name].finished
    /\ Missing(loops[l]) # <<>>
    /\ TickResume(l, "none")

\* C19 as stated: a tick that finds its pull job finished deletes it and
\* ends with no pull job of the target in the cluster.
C19_FinishedTickEndsIdle ==
    [][\A l \in 1..Len(loops) :
          FindsFinished(l) => loops[l].name \notin DOMAIN daemonsets']_vars

\* C19 amended: a tick that finds its pull job finished deletes it and, in
\* the same tick, creates the pull job for the first image of its missing
\* list.
C19_FinishedTickCreatesNext ==
    [][\A l \in 1..Len(loops) :
          FindsFinished(l) =>
             /\ JobCreated(loops[l].name)
             /\ daemonsets'[loops[l].name].image_url = Missing(loops[l])[1].image_url
             /\ loops'[l].pc = "wait"]_vars

\* a pull job has put the first image on a node, and the tick that found
\* it finished has made a pull job that no status check has seen yet
C19_Witness ==
    \E l \in 1..Len(loops) :
       /\ loops[l].name = "a"
       /\ loops[l].pc = "wait"
       /\ nodes[1].images = <<Empty, Pulled("t1")>>
       /\ "a" \in DOMAIN daemonsets
       /\ ~daemonsets["a"].finished
       /\ loops[l].images_to_cache # <<>>

\* C20: a tick that asks for the status of a pull job that does not exist
\* (never created, or deleted from outside) raises nothing: it goes on as
\* with no job outstanding, creates the pull job for its first missing
\* image, and publishes what it found.
C20_MissingJobIsIdle ==
    [][\A l \in 1..Len(loops) :
          (/\ loops[l].pc = "await"
           /\ loops[l].ri = Len(loops[l].repomen)
           /\ loops[l].name \notin DOMAIN daemonsets
           /\ Missing(loops[l]) # <<>>
           /\ TickResume(l, "none")) =>
             /\ logged' = logged
             /\ loops'[l].pc = "wait"
             /\ loops'[l].images_to_cache = Missing(loops[l])
             /\ loops'[l].desired_images = DesiredOf(loops[l])
             /\ JobCreated(loops[l].name)
             /\ daemonsets'[loops[l].name].image_url
                   = Missing(loops[l])[1].image_url]_vars

\* a tick found no pull job, has made one and has published: nothing was
\* logged
C20_Witness ==
    \E l \in 1..Len(loops) :
       /\ loops[l].pc = "wait"
       /\ loops[l].images_to_cache # <<>>
       /\ loops[l].desired_images = DesiredOf(loops[l])
       /\ loops[l].name \in DOMAIN daemonsets
       /\ ~daemonsets[loops[l].name].finished
       /\ logged = None

\* ------------------------------------------------------------------------
\* Properties of a tick: what it leaves as it was, what it classifies
\* ------------------------------------------------------------------------
\* the lists of machine m that dump() publishes
Published(m) == <<m.available_images, m.desired_images, m.images_to_cache>>

\* this step is a step of a tick of loop l that raises: the poll, the
\* awaited strategy call or a call to the cluster fails, and the loop goes
\* to _wait()
TickRaises(l) ==
    /\ loops'[l].pc = "wait"
    /\ \/ /\ loops[l].pc = "wait"
          /\ \E fault \in BeginFaults :
                /\ Begin(loops[l], Cl, fault).exc # None
                /\ TickBegin(l, fault)
       \/ /\ loops[l].pc = "await"
          /\ \E fault \in ResumeFaults :
                /\ Resume(loops[l], Cl, fault).exc # None
                /\ TickResume(l, fault)

\* C21 as stated: a tick that raises is a no-op. The step that raises
\* leaves the published lists, the published common cache and the existence
\* of the target's pull job as they were; and since the steps before it in
\* the tick must have left them alike, a loop that has published no desired
\* list yet, every tick of which has therefore raised, still has the empty
\* common cache it was constructed with.
C21_RaisedTickIsNoOp ==
    [][\A l \in 1..Len(loops) :
          TickRaises(l) =>
             /\ Published(loops'[l]) = Published(loops[l])
             /\ loops'[l].common_cache = loops[l].common_cache
             /\ (loops[l].name \in DOMAIN daemonsets')
                   <=> (loops[l].name \in DOMAIN daemonsets)
             /\ loops'[l].desired_images = <<>> => loops'[l].common_cache = <<>>]_vars

\* C21 amended: a step of a tick that raises, and a step that leaves the
\* loop inside its tick, leave the published available, desired and missing
\* lists as they were: a tick that raises, at whichever step, leaves them
\* as they were before it began.
C21_RaisedTickKeepsPublished ==
    [][\A l \in 1..Len(loops) :
          \/ Published(loops'[l]) = Published(loops[l])
          \/ loops'[l].pc # "await" /\ ~TickRaises(l)]_vars

\* a loop that has published an earlier tick is back at _wait() after a
\* tick whose strategy call raised: the lists are those of the earlier tick
C21_Witness ==
    \E l \in 1..Len(loops) :
       /\ logged = "DockerRegistryError"
       /\ loops[l].pc = "wait"
       /\ loops[l].desired_images = DesiredOf(loops[l])
       /\ loops[l].images_to_cache # <<>>
       /\ Len(loops) = 1

\* a node the selector of loop l matches has an image-name group with tags
\* and no digest
QualifyingMalformed(l) ==
    \E i \in Qualifying(nodes, loops[l].labels) :
       \E g \in 1..Len(nodes[i].images) : GroupImages(nodes[i].images[g]).raised

\* C22: a group of a qualifying node that has tags and no digest is skipped:
\* the poll raises nothing, the common cache is what the well-formed groups
\* of the qualifying nodes have in common, and the tick goes on to its
\* strategies.
C22_MalformedGroupSkipped ==
    [][\A l \in 1..Len(loops) :
          (/\ loops[l].pc = "wait"
           /\ QualifyingMalformed(l)
           /\ TickBegin(l, "none")) =>
             /\ logged' = logged
             /\ loops'[l].pc = "await"
             /\ Pairs(loops'[l].common_cache) = CommonPairs(nodes, loops[l].labels)]_vars

\* ------------------------------------------------------------------------
\* Ticking: one target over a cluster whose nodes hold any of the image
\* caches of NodeCaches, its strategies asking for images with and without
\* a digest; the steps are those of its ticks, no call failing
\* ------------------------------------------------------------------------
\* a desired image with the digest h
ImgD(t, h) == DockerImage(TagUrl(REPO, t), h, t)

TickBodies ==
    { [name |-> "a", labels |-> labels, repomen |-> repomen] :
        labels \in {K1, EmptyMap},
        repomen \in { << SimpleRepoMan(<<Img("t1"), ImgH("t2")>>) >>,
                      << SimpleRepoMan(<<ImgD("t1", "sha256:y")>>),
                         SimpleRepoMan(<<ImgH("t1"), Img("t2")>>) >> } }

TickInit ==
    /\ \E imgs \in [1..4 -> NodeCaches] : nodes = MockNodes(imgs)
    /\ daemonsets = EmptyMap
    /\ \E body \in TickBodies :
          LET r == create([machines |-> EmptyMap, jobs |-> EmptyMap, loops |-> <<>>, closed |-> FALSE], body)
          IN  /\ machines = r.reg.machines
              /\ jobs = r.reg.jobs
              /\ loops = r.reg.loops
    /\ logged = None
    /\ closed = FALSE
    /\ called = NoCall
    /\ outcome = NoCall

TickNext ==
    \/ \E l \in 1..MaxLoops : TickBegin(l, "none")
    \/ \E l \in 1..MaxLoops : TickResume(l, "none")

SpecTick == TickInit /\ [][TickNext]_vars

\* this step ends a tick of loop l without raising: lines 73-75 publish
TickPublishes(l) ==
    /\ loops[l].pc = "await"
    /\ loops'[l].pc = "wait"
    /\ \E fault \in ResumeFaults :
          /\ Resume(loops[l], Cl, fault).exc = None
          /\ TickResume(l, fault)

\* the common cache holds the URL of d, and only under other digests
OtherDigestOnly(d, common_cache) ==
    /\ d.image_hash # None
    /\ \E i \in 1..Len(common_cache) : common_cache[i].image_url = d.image_url
    /\ \A i \in 1..Len(common_cache) :
          common_cache[i].image_url = d.image_url
             => common_cache[i].image_hash # d.image_hash

\* C23: the tick publishes as desired what its strategies returned; a
\* desired image is in the available list if and only if an entry of the
\* tick's common cache has its URL and the image has no digest or the same
\* digest, and in the missing list otherwise; an image with a digest whose
\* URL the cache holds only under another digest is missing.
C23_AvailableIffCached ==
    [][\A l \in 1..Len(loops) :
          TickPublishes(l) =>
             /\ loops'[l].desired_images = DesiredOf(loops[l])
             /\ \A i \in 1..Len(loops'[l].desired_images) :
                   LET d == loops'[l].desired_images[i]
                   IN  /\ InSeq(d, loops'[l].available_images)
                          <=> IsAvailable(d, loops'[l].common_cache)
                       /\ InSeq(d, loops'[l].images_to_cache)
                          <=> ~IsAvailable(d, loops'[l].common_cache)
                       /\ OtherDigestOnly(d, loops'[l].common_cache)
                          => InSeq(d, loops'[l].images_to_cache)]_vars

\* a tick has published an image with a digest as missing while the common
\* cache holds its URL under another digest
C23_Witness ==
    \E l \in 1..Len(loops) :
       /\ loops[l].pc = "wait"
       /\ \E i \in 1..Len(loops[l].images_to_cache) :
             OtherDigestOnly(loops[l].images_to_cache[i], loops[l].common_cache)

\* the number of entries of images that are equal to d
Count(d, images) == Cardinality({i \in 1..Len(images) : images[i] = d})

\* C24: the available and missing lists a tick publishes partition its
\* desired list: every desired entry is in exactly one of the two, as often
\* as it is desired, so that the two lengths add up to the length of the
\* desired list.
C24_AvailableMissingPartition ==
    [][\A l \in 1..Len(loops) :
          TickPublishes(l) =>
             /\ Len(loops'[l].available_images) + Len(loops'[l].images_to_cache)
                   = Len(loops'[l].desired_images)
             /\ \A i \in 1..Len(loops'[l].desired_images) :
                   LET d == loops'[l].desired_images[i]
                   IN  Count(d, loops'[l].available_images)
                          + Count(d, loops'[l].images_to_cache)
                       = Count(d, loops'[l].desired_images)]_vars

\* ------------------------------------------------------------------------
\* Polling a cluster of one or two nodes: n1 alone, or n1 and n3, which
\* carry the same labels; the only step is the poll of a tick
\* ------------------------------------------------------------------------
PairInit ==
    /\ \E a \in NodeCaches, b \in NodeCaches, k \in 1..2 :
          nodes = SubSeq(<<MockNodes(<<a, <<Empty>>, b, <<Empty>>>>)[1],
                           MockNodes(<<a, <<Empty>>, b, <<Empty>>>>)[3]>>, 1, k)
    /\ daemonsets = EmptyMap
    /\ \E labels \in {K1, EmptyMap} :
          LET r == create([machines |-> EmptyMap, jobs |-> EmptyMap, loops |-> <<>>, closed |-> FALSE],
                          [name |-> "a", labels |-> labels,
                           repomen |-> <<SimpleRepoMan(<<Img("t1")>>)>>])
          IN  /\ machines = r.reg.machines
              /\ jobs = r.reg.jobs
              /\ loops = r.reg.loops
    /\ logged = None
    /\ closed = FALSE
    /\ called = NoCall
    /\ outcome = NoCall

SpecPair == PairInit /\ [][PollNext]_vars

\* the two lists hold the same entries, each as often in one as in the other
SameEntries(xs, ys) ==
    /\ \A i \in 1..Len(xs) : Count(xs[i], xs) = Count(xs[i], ys)
    /\ \A i \in 1..Len(ys) : Count(ys[i], xs) = Count(ys[i], ys)

\* C25: with one qualifying node the common cache is that node's structured
\* image set; with two qualifying nodes that report the same image-name
\* groups it holds the entries of one of them, each as often as that node
\* has it.
C25_IntersectionIdempotent ==
    [][\A l \in 1..Len(loops) :
          (/\ loops[l].pc = "wait"
           /\ ~QualifyingMalformed(l)
           /\ TickBegin(l, "none")) =>
             /\ \A i \in 1..Len(nodes) :
                   Qualifying(nodes, loops[l].labels) = {i}
                      => loops'[l].common_cache = NodeImages(nodes[i]).images
             /\ \A i \in 1..Len(nodes), j \in 1..Len(nodes) :
                   (/\ i # j
                    /\ Qualifying(nodes, loops[l].labels) = {i, j}
                    /\ nodes[i].images = nodes[j].images)
                      => SameEntries(loops'[l].common_cache,
                                     NodeImages(nodes[i]).images)]_vars

\* the tags node n lists for the repository under the digest: those named
\* in a group that names repository@digest
NodeTagsFor(n, repository, digest) ==
    { t \in DOMAIN mock_registry :
        \E g \in 1..Len(n.images) :
           /\ InSeq(HashUrl(repository, digest), n.images[g])
           /\ InSeq(TagUrl(repository, t), n.images[g]) }

\* the elements of a list
Elements(s) == {s[i] : i \in 1..Len(s)}

\* C26: after a successful poll no entry of the common cache has the tag of
\* its own image URL among its tags, and its tags are the union, over the
\* qualifying nodes, of the other tags the node lists for the entry's
\* repository and digest. (Under SpecPoll the nodes are those the poll
\* listed.)
C26_TagsAreUnionOfOthers ==
    \A l \in 1..Len(loops) :
       loops[l].pc = "await" =>
          \A c \in 1..Len(loops[l].common_cache) :
             LET e == loops[l].common_cache[c]
             IN  /\ ~InSeq(e.image_url[3], e.tags)
                 /\ Elements(e.tags) =
                       UNION { NodeTagsFor(nodes[i], e.image_url[1], e.image_hash)
                                  \ {e.image_url[3]}
                               : i \in Qualifying(nodes, loops[l].labels) }

\* a poll over several qualifying nodes has kept an entry that one node
\* lists with another tag and another node lists without
C26_Witness ==
    \E l \in 1..Len(loops) :
       /\ loops[l].pc = "await"
       /\ \E c \in 1..Len(loops[l].common_cache) :
             LET e == loops[l].common_cache[c]
             IN  /\ e.tags # <<>>
                 /\ \E i \in Qualifying(nodes, loops[l].labels) :
                       NodeTagsFor(nodes[i], e.image_url[1], e.image_hash)
                          = {e.image_url[3]}

\* ------------------------------------------------------------------------
\* The order of the patterns
\* ------------------------------------------------------------------------
\* \d+ matches all of s
AllDigits(s) == s # <<>> /\ \A i \in 1..Len(s) : IsDigit(s[i])

\* s is written as the pattern says: pat is a list of literals, <<>>
\* standing for \d+
RECURSIVE Fits(_, _)
Fits(s, pat) ==
    IF pat = <<>> THEN s = <<>>
    ELSE IF Head(pat) = <<>>
    THEN \E k \in 1..Len(s) :
            AllDigits(SubSeq(s, 1, k)) /\ Fits(SubSeq(s, k + 1, Len(s)), Tail(pat))
    ELSE /\ StartsAt(s, 1, Head(pat))
         /\ Fits(SubSeq(s, Len(Head(pat)) + 1, Len(s)), Tail(pat))

\* r<major>_<minor>_<patch>_rc<pre>, w_<year>_<week> and the other forms a
\* cycle suffix or a remainder can follow
RcForm == <<<<"r">>, <<>>, <<"_">>, <<>>, <<"_">>, <<>>, <<"_", "r", "c">>, <<>>>>

SuffixedForms ==
    { RcForm,
      <<<<"r">>, <<>>, <<"_">>, <<>>, <<"_">>, <<>>>>,
      <<<<"w", "_">>, <<>>, <<"_">>, <<>>>>,
      <<<<"d", "_">>, <<>>, <<"_">>, <<>>, <<"_">>, <<>>>> }

\* s[i-1:j], and nothing when that reaches beyond s
Slice(s, i, j) == IF 1 <= i /\ i <= j /\ j <= Len(s) THEN SubSeq(s, i, j) ELSE <<>>

\* the tag ends at position j or goes on with a remainder
EndsOrGoesOn(tag, j) == j = Len(tag) \/ tag[j + 1] = "_"

\* C27: a tag written r<major>_<minor>_<patch>_rc<pre>, alone or followed
\* by a cycle suffix, a remainder or both, is a release candidate with the
\* prerelease rc<pre>, never a release; and a release candidate, release,
\* weekly or daily tag followed by _c<cycle>.<build>, with or without a
\* remainder after it, has the integer <cycle> as its cycle.
C27_FirstPatternWins ==
    called.op = "parse_tag" =>
       /\ \A j \in 1..Len(called.tag) :
             (Fits(Slice(called.tag, 1, j), RcForm) /\ EndsOrGoesOn(called.tag, j)) =>
                /\ outcome.value.image_type = RubinTagType("RELEASE_CANDIDATE")
                /\ \E k \in 1..j :
                      /\ AllDigits(Slice(called.tag, k, j))
                      /\ Slice(called.tag, k - 3, k - 1) = <<"_", "r", "c">>
                      /\ outcome.value.semantic_version.prerelease
                            = <<"r", "c">> \o Slice(called.tag, k, j)
       /\ \A k \in 1..Len(called.tag), a \in 1..Len(called.tag), b \in 1..Len(called.tag) :
             (/\ Slice(called.tag, k + 1, k + 2) = <<"_", "c">>
              /\ Slice(called.tag, a + 1, a + 1) = <<".">>
              /\ AllDigits(Slice(called.tag, k + 3, a))
              /\ AllDigits(Slice(called.tag, a + 2, b))
              /\ EndsOrGoesOn(called.tag, b)
              /\ \E form \in SuffixedForms : Fits(Slice(called.tag, 1, k), form)) =>
                outcome.value.cycle = <<int(Slice(called.tag, k + 3, a))>>

\* a release candidate with a cycle suffix and a remainder has been parsed
C27_Witness ==
    /\ called.op = "parse_tag"
    /\ called.tag = <<"r", "2", "1", "_", "0", "_", "0", "_", "r", "c", "1", "_", "c", "0", "0", "2", "0", ".", "0", "0", "1", "_", "x">>
    /\ outcome.value.image_type = RubinTagType("RELEASE_CANDIDATE")
    /\ outcome.value.semantic_version.prerelease = <<"r", "c", "1">>
    /\ outcome.value.cycle = <<20>>

\* ------------------------------------------------------------------------
\* Targets next to each other
\* ------------------------------------------------------------------------
\* this step is a step of a tick of loop l, whether it raises or not: the
\* loop moves on, or what it raised is logged
TickOf(l) ==
    /\ loops'[l] # loops[l] \/ logged' # logged
    /\ \/ /\ loops[l].pc = "wait"
          /\ \E fault \in BeginFaults : TickBegin(l, fault)
       \/ /\ loops[l].pc = "await"
          /\ \E fault \in ResumeFaults : TickResume(l, fault)

\* C28: a step of a tick of the controller of a target, one that raises
\* included, creates, changes and deletes no pull job but the one named
\* after its target, and leaves every other loop, with what it has
\* published, as it was: every step keeps them so or is no step of a tick
\* of that controller.
C28_TargetsIndependent ==
    [][\A l \in 1..Len(loops) :
          \/ /\ \A n \in (DOMAIN daemonsets \cup DOMAIN daemonsets') \ {loops[l].name} :
                   /\ n \in DOMAIN daemonsets
                   /\ n \in DOMAIN daemonsets'
                   /\ daemonsets'[n] = daemonsets[n]
             /\ \A k \in 1..Len(loops) \ {l} : loops'[k] = loops[k]
          \/ ~TickOf(l)]_vars

\* two targets have a pull job each, one not yet seen by a status check,
\* and a tick has raised
C28_Witness ==
    /\ DOMAIN daemonsets = {"a", "b"}
    /\ daemonsets["a"].finished
    /\ ~daemonsets["b"].finished
    /\ logged = "ApiException"
    /\ \A l \in 1..Len(loops) : loops[l].pc = "wait"

\* ------------------------------------------------------------------------
\* A pull job that takes its time: next to the steps of Spec, the status
\* check of a tick may answer "still pulling" any number of times
\* ------------------------------------------------------------------------
SlowNext ==
    \/ \E body \in Bodies : Create(body)
    \/ \E name \in Names : Release(name)
    \/ \E l \in 1..MaxLoops, fault \in BeginFaults : TickBegin(l, fault)
    \/ \E l \in 1..MaxLoops, fault \in ResumeFaults \cup {"pulling"} : TickResume(l, fault)
    \/ Cleanup

SpecSlow == Init /\ [][SlowNext]_vars

\* this step is the rest of a tick of loop l whose status check of the job
\* of its target returned finished: the last strategy has returned, images
\* are missing (do_work line 70), and daemonset_finished answered True
FinishedCheck(l) ==
    /\ loops[l].pc = "await"
    /\ loops[l].ri = Len(loops[l].repomen)
    /\ \E fault \in (ResumeFaults \cup {"pulling"}) \ {"strategy"} :
          /\ ClassifyAll(loops[l],
                         desired_images(loops[l].repomen[loops[l].ri],
                                        loops[l].common_cache)).loc_to_cache # <<>>
          /\ daemonset_finished(Cl, loops[l].name, fault).exc = None
          /\ daemonset_finished(Cl, loops[l].name, fault).ret = TRUE
          /\ TickResume(l, fault)

\* C29: a pull job is deleted only by its controller in a tick whose status
\* check returned finished; in every other step each job that exists stays,
\* for the same image and the same nodes (only the mark of the status check
\* may change), and no image reaches a node; so an unfinished job is
\* neither deleted nor replaced nor joined by another pull, however many
\* ticks pass.
C29_UnfinishedJobStays ==
    [][\/ /\ nodes' = nodes
          /\ \A n \in DOMAIN daemonsets :
                /\ n \in DOMAIN daemonsets'
                /\ daemonsets'[n]
                      = [daemonsets[n] EXCEPT !.finished = daemonsets'[n].finished]
       \/ \E l \in 1..Len(loops) :
             /\ loops[l].name \in DOMAIN daemonsets
             /\ FinishedCheck(l)
             /\ \A n \in DOMAIN daemonsets \ {loops[l].name} :
                   n \in DOMAIN daemonsets' /\ daemonsets'[n] = daemonsets[n]]_vars

\* a tick has ended with the job of target a still there after its status
\* check, while a second image of the target is missing as well
C29_Witness ==
    /\ "a" \in DOMAIN daemonsets
    /\ daemonsets["a"].finished
    /\ \E l \in 1..Len(loops) :
          /\ loops[l].name = "a"
          /\ loops[l].pc = "wait"
          /\ Len(loops[l].images_to_cache) >= 2
          /\ daemonsets["a"].image_url = loops[l].images_to_cache[1].image_url

\* ------------------------------------------------------------------------
\* What a read of the management API sees
\* ------------------------------------------------------------------------
\* C30 as stated: in every state, which is every point a dump can be taken
\* at, each image of a loop's published available list is held by the
\* common cache the same dump returns.
C30_DumpAvailableInCommonCache ==
    \A l \in 1..Len(loops) :
       \A i \in 1..Len(loops[l].available_images) :
          IsAvailable(loops[l].available_images[i], loops[l].common_cache)

\* the cluster changes under the controllers: a node drops the images it
\* holds (the kubelet's image garbage collection, a node that was replaced),
\* which the next list_nodes() of a poll reports
Evict(n) ==
    /\ n \in 1..Len(nodes)
    /\ nodes[n].images # <<Empty>>
    /\ nodes' = [nodes EXCEPT ![n].images = <<Empty>>]
    /\ UNCHANGED <<daemonsets, machines, jobs, loops, logged, called, outcome, closed>>

\* targets are created and tick; of the calls of a tick the strategy call
\* may fail; n1, the node the pull jobs of the targets selecting k1 run on,
\* may drop its images
ChurnNext ==
    \/ \E body \in Bodies : Create(body)
    \/ \E l \in 1..MaxLoops : TickBegin(l, "none")
    \/ \E l \in 1..MaxLoops, fault \in {"none", "strategy"} : TickResume(l, fault)
    \/ \E n \in {1} : Evict(n)

SpecChurn == Init /\ [][ChurnNext]_vars

\* the three published lists fit each other: the images of the available
\* and of the missing list are those of the desired list, and none is in
\* both
ListsOfOneTick(m) ==
    /\ \A i \in 1..Len(m.desired_images) :
          InSeq(m.desired_images[i], m.available_images)
             # InSeq(m.desired_images[i], m.images_to_cache)
    /\ \A i \in 1..Len(m.available_images) :
          InSeq(m.available_images[i], m.desired_images)
    /\ \A i \in 1..Len(m.images_to_cache) :
          InSeq(m.images_to_cache[i], m.desired_images)

\* C30 (amended): at every point a dump can be taken at, the published
\* available, desired and missing lists are those of one tick, they change
\* only in the step that ends a tick without an exception, and in that step
\* every image of the new available list is in the common cache of the
\* loop; the common cache changes only in the poll that begins a tick, so
\* the lists and the common cache of a dump agree from the end of a tick to
\* the poll of the next.
C30_DumpListsOfOneTick ==
    [][\A l \in 1..Len(loops) :
          /\ ListsOfOneTick(loops[l])
          /\ ListsOfOneTick(loops'[l])
          /\ Published(loops'[l]) # Published(loops[l]) => TickPublishes(l)
          /\ TickPublishes(l) =>
                /\ loops'[l].common_cache = loops[l].common_cache
                /\ \A i \in 1..Len(loops'[l].available_images) :
                      IsAvailable(loops'[l].available_images[i], loops'[l].common_cache)
          /\ loops'[l].common_cache # loops[l].common_cache =>
                loops[l].pc = "wait" /\ loops'[l].pc = "await"]_vars

\* a dump in the middle of a tick: the strategy call is awaited, the lists
\* are those of the tick before and hold an available image, and the poll
\* of this tick has found the common cache empty
C30_Witness ==
    \E l \in 1..Len(loops) :
       /\ loops[l].pc = "await"
       /\ loops[l].available_images # <<>>
       /\ loops[l].common_cache = <<>>
====
